---- MODULE Spec2Model ----
(***************************************************************************)
(* Model of the plan-approve-apply controller of temporal-terraform-demo.  *)
(*                                                                         *)
(* CreateDemoNetworkWorkflow calls CreateVPCWorkflow and then              *)
(* CreateSubnetsWorkflow; each of them calls                               *)
(* TerraformPlanAndApplyWorkflow as a plain function on the same workflow  *)
(* context, so the two runs of the controller are sequential and share the *)
(* signal channel "terraform-apply-signal".                                *)
(*                                                                         *)
(* An activity is invoked by ExecuteActivity and its result is awaited by  *)
(* Get: the model records the invocation in `calls` when it is made and    *)
(* completes it in a later step, so that signals can arrive while an       *)
(* activity is running.                                                    *)
(***************************************************************************)
EXTENDS Integers, Sequences, FiniteSets

\* Number of signals the environment sends during one workflow execution.
MaxSignals == 3

Nil == "nil"

\* Decision tokens a client can signal: the three the loop knows, an
\* unrecognized one and an empty (malformed) one.
Tokens == {"plan", "approve", "reject", "maybe", ""}

\* Errors an activity can end with.
ActivityErrors == {"bundle failed", "terraform failed"}

\* Paths the bundle activity can return, plan files the plan activity can return.
BundlePaths == {"bundle-a.zip", "bundle-b.zip"}
PlanFiles == {"tfplan-a", "tfplan-b"}

\* tfworkspace.ApplyOutput{}: no output at all.
EmptyOutput == [Output |-> {}]

\* Outputs terraform can report after an apply: a set of (name, kind, value).
ApplyOutputs ==
    { EmptyOutput,
      [Output |-> {[name |-> "vpc_id", kind |-> "string", val |-> "vpc-1"]}],
      [Output |-> {[name |-> "vpc_id", kind |-> "int", val |-> "42"]}],
      [Output |-> {[name |-> "arn", kind |-> "string", val |-> "arn-1"]}] }

\* tfworkspace.PlanOutput{}
ZeroPlanOutput == [HasChanges |-> FALSE, PlanFile |-> ""]

VARIABLES
    netPc,        \* position of CreateDemoNetworkWorkflow
    netResult,    \* what CreateDemoNetworkWorkflow returned
    vpcResult,    \* what CreateVPCWorkflow returned
    subnetsResult,\* what CreateSubnetsWorkflow returned
    pc,           \* position of the current TerraformPlanAndApplyWorkflow run
    bundlePath,   \* local of the run
    planOutput,   \* local of the loop iteration
    decision,     \* local of the loop iteration
    ret,          \* per run: what the run returned
    signalCh,     \* tokens buffered in the signal channel, oldest first
    sent,         \* number of signals sent so far
    calls,        \* history: every activity invocation, in order
    consumed      \* history: every token received, in order

vars == <<netPc, netResult, vpcResult, subnetsResult, pc, bundlePath, planOutput,
          decision, ret, signalCh, sent, calls, consumed>>

\* One call of Workspace.Apply or Workspace.Destroy made by an activity, the
\* terraformExec invocations it makes, and the goroutines they start.
VARIABLES
    call,         \* the Workspace call: its kind, position, imports left, result,
                  \* and the activity invocation it serves
    workDir,      \* the temporary directory of the call: "none", "exists", "removed"
    workerStop,   \* the worker-stop channel is closed
    ctxDone,      \* the context heartbeat.Begin returned is cancelled
    cancelAt,     \* history: what ran when that context was cancelled
    execPc,       \* position of the calling goroutine in terraformExec
    execErr,      \* the error terraformExec is returning
    cmds,         \* per terraformExec invocation: subcommand, process, flags, watcher
    sigs          \* history: the signals the watcher of the last invocation sent

execVars == <<call, workDir, workerStop, ctxDone, cancelAt, execPc, execErr, cmds, sigs>>

\* The output of the child of terraformExec.
VARIABLES
    output        \* what the child wrote, what was relayed, what the interceptor kept

\* One call of Terraform.Plan.
VARIABLES
    planIn,       \* what terraformExec returned to it
    planRes       \* what it returned

\* One call of BundleBuilder.BundleForApply or BundleForDestroy.
VARIABLES
    bundle        \* its inputs, its position, the archive file, what it returned

\* The environment one subprocess is given.
VARIABLES
    envRun        \* the mappings it is made from, the command's Env, the child's

\* One call of parseJson.
VARIABLES
    jsonRun       \* the wire value it is given and what it returned

\* The two goroutines that copy the output of one child.
VARIABLES
    relay         \* what each has left to copy and holds, and the interceptor's list

\* State of the functions that are followed on their own.
pure == <<envRun, jsonRun, relay>>

\* One execution of DestroyDemoNetworkWorkflow.
VARIABLES
    destroy       \* its input, its position, the activity attempts, what it returned

\* State of the calls that are followed on their own.
aside == <<output, planIn, planRes, bundle, pure, destroy>>

\* Everything that is not state of the workflows.
others == <<execVars, aside>>

Runs == {1, 2}

\* The run of the controller that is executing: 1 under CreateVPCWorkflow,
\* 2 under CreateSubnetsWorkflow.
run == IF netPc = "CreateSubnets" THEN 2 ELSE 1

NotReturned == [done |-> FALSE, out |-> EmptyOutput, err |-> Nil]

Returned(out, err) == [done |-> TRUE, out |-> out, err |-> err]

----------------------------------------------------------------------------
\* History helpers.

Call(r, act, bp, pf) ==
    [run |-> r, act |-> act, inBundle |-> bp, inPlanFile |-> pf,
     status |-> "running", outPath |-> "", HasChanges |-> FALSE,
     out |-> EmptyOutput, err |-> Nil]

\* Indices of the calls of run r for activity act.
CallsOf(r, act) == {i \in DOMAIN calls : calls[i].run = r /\ calls[i].act = act}

\* Number of plan activities that have completed, in the whole execution.
PlansCompleted ==
    Cardinality({i \in DOMAIN calls : calls[i].act = "plan" /\ calls[i].status # "running"})

\* The running call is always the last one: Get blocks the workflow.
Complete(status, outPath, changes, out, err) ==
    [calls EXCEPT ![Len(calls)] =
        [@ EXCEPT !.status = status, !.outPath = outPath, !.HasChanges = changes,
                  !.out = out, !.err = err]]

----------------------------------------------------------------------------
\* TerraformPlanAndApplyWorkflow

\* Mutant: the error of an activity is ignored.
FailedNever(err) == FALSE

\* `err != nil` after an activity's Get.
Failed(err) == err # Nil

\* Mutant: the plan is made from a fixed bundle, not from the one just built.
PlanBundlePathFixed(bp) == "bundle-a.zip"

\* BundlePath of PlanInput and of ApplyInput.
PlanBundlePath(bp) == bp
ApplyBundlePath(bp) == bp

\* Mutant: apply is given the plan file of the first plan of the run.
ApplyPlanFileFirst(po) ==
    LET first == CHOOSE i \in CallsOf(run, "plan") : \A j \in CallsOf(run, "plan") : i <= j
    IN calls[first].outPath

\* PlanFile of ApplyInput.
ApplyPlanFile(po) == po.PlanFile

\* Mutant: an empty plan does not end the run.
NothingToDoNever(po) == FALSE

\* `!planOutput.HasChanges`
NothingToDo(po) == ~po.HasChanges

\* Mutant: every decision but "plan" and "reject" applies.
AfterDecisionAnyApproves(d) ==
    IF d = "plan" THEN "Planning"
    ELSE IF d = "reject" THEN "Done"
    ELSE "Applying"

\* Mutant: "reject" is not recognized.
AfterDecisionRejectFallsThrough(d) ==
    IF d = "plan" THEN "Planning"
    ELSE IF d = "approve" THEN "Applying"
    ELSE "Planning"

\* Mutant: "plan" ends the run instead of planning again.
AfterDecisionPlanReturns(d) ==
    IF d = "plan" THEN "Done"
    ELSE IF d = "reject" THEN "Done"
    ELSE IF d = "approve" THEN "Applying"
    ELSE "Planning"

\* Mutant: no decision ends the loop.
AfterDecisionNeverEnds(d) == "Planning"

\* The chain of ifs after Receive: where the loop goes for a decision.  A
\* decision that matches none of the three falls off the end of the loop
\* body, and the for loop starts its next iteration: it plans again.
AfterDecision(d) ==
    IF d = "plan" THEN "Planning"
    ELSE IF d = "reject" THEN "Done"
    ELSE IF d = "approve" THEN "Applying"
    ELSE "Planning"

\* Mutant: Receive does not take the token out of the channel.
AfterReceiveKeeps(ch) == ch

\* What is left in the channel after one Receive.
AfterReceive(ch) == Tail(ch)

\* Entry of the function: ExecuteActivity(bundle) is invoked.
EnterPlanAndApply(r) ==
    /\ pc' = "Bundling"
    /\ bundlePath' = ""
    /\ planOutput' = ZeroPlanOutput
    /\ decision' = ""
    /\ calls' = Append(calls, Call(r, "bundle", "", ""))

\* A return statement of the function.
Return(out, err) ==
    /\ pc' = "Done"
    /\ ret' = [ret EXCEPT ![run] = Returned(out, err)]

\* Get of the bundle activity returns.  On an error Get leaves bundlePath as
\* it was.
BundleDone ==
    /\ pc = "Bundling"
    /\ \E err \in ActivityErrors \cup {Nil} :
       \E path \in (IF err = Nil THEN BundlePaths ELSE {""}) :
        LET done == Complete(IF err = Nil THEN "ok" ELSE "err", path, FALSE,
                             EmptyOutput, err)
        IN IF Failed(err)
           THEN /\ calls' = done
                /\ Return(EmptyOutput, err)
                /\ UNCHANGED <<bundlePath, planOutput>>
           ELSE /\ bundlePath' = path
                /\ planOutput' = ZeroPlanOutput
                /\ pc' = "Planning"
                /\ calls' = Append(done, Call(run, "plan", PlanBundlePath(path), ""))
                /\ UNCHANGED ret
    /\ UNCHANGED <<netPc, netResult, vpcResult, subnetsResult, decision, signalCh,
                   sent, consumed>>
    /\ UNCHANGED others

\* Get of the plan activity returns.  On an error Get leaves planOutput zero.
PlanDone ==
    /\ pc = "Planning"
    /\ \E err \in ActivityErrors \cup {Nil} :
       \E po \in (IF err = Nil
                  THEN [HasChanges : BOOLEAN, PlanFile : PlanFiles]
                  ELSE {ZeroPlanOutput}) :
        /\ calls' = Complete(IF err = Nil THEN "ok" ELSE "err", po.PlanFile,
                             po.HasChanges, EmptyOutput, err)
        /\ planOutput' = po
        /\ IF Failed(err)
           THEN Return(EmptyOutput, err)
           ELSE IF NothingToDo(po)
                THEN Return(EmptyOutput, Nil)
                ELSE pc' = "AwaitingDecision" /\ UNCHANGED ret
    /\ UNCHANGED <<netPc, netResult, vpcResult, subnetsResult, bundlePath, decision,
                   signalCh, sent, consumed>>
    /\ UNCHANGED others

\* Receive on the signal channel returns the oldest buffered token, and the
\* rest of the loop body runs up to the next activity or return.
ReceiveDecision ==
    /\ pc = "AwaitingDecision"
    /\ signalCh # <<>>
    /\ LET msg == Head(signalCh)
           d == msg.tok
           to == AfterDecision(d)
       IN /\ decision' = d
          /\ signalCh' = AfterReceive(signalCh)
          /\ consumed' = Append(consumed,
                [run |-> run, id |-> msg.id, tok |-> d,
                 plansAtSend |-> msg.plansAtSend, plansAtReceive |-> PlansCompleted,
                 forCall |-> Len(calls)])
          /\ CASE to = "Planning" ->
                    /\ pc' = "Planning"
                    /\ planOutput' = ZeroPlanOutput
                    /\ calls' = Append(calls, Call(run, "plan", PlanBundlePath(bundlePath), ""))
                    /\ UNCHANGED ret
               [] to = "Done" ->
                    /\ Return(EmptyOutput, Nil)
                    /\ UNCHANGED <<planOutput, calls>>
               [] to = "Applying" ->
                    /\ pc' = "Applying"
                    /\ calls' = Append(calls, Call(run, "apply", ApplyBundlePath(bundlePath),
                                                   ApplyPlanFile(planOutput)))
                    /\ UNCHANGED <<planOutput, ret>>
    /\ UNCHANGED <<netPc, netResult, vpcResult, subnetsResult, bundlePath, sent>>
    /\ UNCHANGED others

\* Get of the apply activity returns.  On an error Get leaves applyOutput empty.
ApplyDone ==
    /\ pc = "Applying"
    /\ \E err \in ActivityErrors \cup {Nil} :
       \E out \in (IF err = Nil THEN ApplyOutputs ELSE {EmptyOutput}) :
        /\ calls' = Complete(IF err = Nil THEN "ok" ELSE "err", "", FALSE, out, err)
        /\ IF Failed(err)
           THEN Return(EmptyOutput, err)
           ELSE Return(out, Nil)
    /\ UNCHANGED <<netPc, netResult, vpcResult, subnetsResult, bundlePath, planOutput,
                   decision, signalCh, sent, consumed>>
    /\ UNCHANGED others

\* A client signals the workflow; the channel buffers the token until the
\* workflow receives it.
SendSignal ==
    /\ netPc # "Returned"
    /\ sent < MaxSignals
    /\ \E tok \in Tokens :
        signalCh' = Append(signalCh,
            [tok |-> tok, id |-> sent + 1, plansAtSend |-> PlansCompleted])
    /\ sent' = sent + 1
    /\ UNCHANGED <<netPc, netResult, vpcResult, subnetsResult, pc, bundlePath,
                   planOutput, decision, ret, calls, consumed>>
    /\ UNCHANGED others

----------------------------------------------------------------------------
\* The composed workflows.

\* ApplyOutput.String(key): the value and whether it failed.
OutputString(o, key) ==
    LET hits == {e \in o.Output : e.name = key}
    IN IF hits = {} THEN [val |-> "", err |-> "missing key"]
       ELSE LET e == CHOOSE x \in hits : TRUE
            IN IF e.kind # "string" THEN [val |-> "", err |-> "not a string"]
               ELSE [val |-> e.val, err |-> Nil]

\* CreateVPCWorkflow, from its call of the controller to its return.
CreateVPCResult(r) ==
    IF Failed(r.err) THEN [VpcID |-> "", err |-> r.err]
    ELSE LET s == OutputString(r.out, "vpc_id")
         IN IF Failed(s.err) THEN [VpcID |-> "", err |-> s.err]
            ELSE [VpcID |-> s.val, err |-> Nil]

\* CreateSubnetsWorkflow, from its call of the controller to its return.
CreateSubnetsResult(r) ==
    IF Failed(r.err) THEN [err |-> r.err] ELSE [err |-> Nil]

\* What CreateDemoNetworkWorkflow returns when CreateSubnetsWorkflow failed.
SubnetsFailureResult(err) == [VpcID |-> "", err |-> Nil]

\* CreateDemoNetworkWorkflow starts: CreateVPCWorkflow calls the controller.
StartCreateDemoNetwork ==
    /\ netPc = "Start"
    /\ netPc' = "CreateVPC"
    /\ EnterPlanAndApply(1)
    /\ UNCHANGED <<netResult, vpcResult, subnetsResult, ret, signalCh, sent, consumed>>
    /\ UNCHANGED others

\* The controller returned to CreateVPCWorkflow, which returns to
\* CreateDemoNetworkWorkflow, which fails or goes on to CreateSubnetsWorkflow.
CreateVPCReturns ==
    /\ netPc = "CreateVPC"
    /\ pc = "Done"
    /\ LET v == CreateVPCResult(ret[1])
       IN /\ vpcResult' = [done |-> TRUE, VpcID |-> v.VpcID, err |-> v.err]
          /\ IF Failed(v.err)
             THEN /\ netPc' = "Returned"
                  /\ netResult' = [VpcID |-> "", err |-> v.err]
                  /\ UNCHANGED <<pc, bundlePath, planOutput, decision, calls>>
             ELSE /\ netPc' = "CreateSubnets"
                  /\ EnterPlanAndApply(2)
                  /\ UNCHANGED netResult
    /\ UNCHANGED <<subnetsResult, ret, signalCh, sent, consumed>>
    /\ UNCHANGED others

\* The controller returned to CreateSubnetsWorkflow, which returns to
\* CreateDemoNetworkWorkflow, which returns.
CreateSubnetsReturns ==
    /\ netPc = "CreateSubnets"
    /\ pc = "Done"
    /\ LET s == CreateSubnetsResult(ret[2])
       IN /\ subnetsResult' = [done |-> TRUE, err |-> s.err]
          /\ netPc' = "Returned"
          /\ netResult' = IF Failed(s.err)
                          THEN SubnetsFailureResult(s.err)
                          ELSE [VpcID |-> vpcResult.VpcID, err |-> Nil]
    /\ UNCHANGED <<vpcResult, pc, bundlePath, planOutput, decision, ret, signalCh,
                   sent, calls, consumed>>
    /\ UNCHANGED others

----------------------------------------------------------------------------
\* DestroyDemoNetworkWorkflow: two activities, one after the other.  The
\* retry policy sets no MaximumAttempts, so a failed attempt is retried by
\* the server, and Get returns an error only for a failure that is final:
\* the workflow is cancelled, or the error is one the server does not retry.

\* Number of attempts of one activity that are followed.
MaxAttempts == 3

Names == {"demo", "test"}
Regions == {"us-west-2", "eu-west-1"}

DestroySubnetsActivity == "DestroySubnetsActivity"
DestroyVPCActivity == "DestroyVPCActivity"

\* Config.TerraformPath of the workspace an activity makes.
DestroyPath(act) == IF act = DestroyVPCActivity THEN "aws/vpc" ELSE "aws/subnet"

\* fmt.Sprintf("vpc-%s.tfstate", ...) and fmt.Sprintf("subnets-%s.tfstate", ...)
DestroyStateKey(act, name) ==
    IF act = DestroyVPCActivity THEN <<"vpc-", name, ".tfstate">>
    ELSE <<"subnets-", name, ".tfstate">>

\* Errors an attempt can end with and that are retried.
AttemptErrors == {"terraform destroy error", "heartbeat timeout"}

\* Errors Get can return.
GetErrors == {"canceled", "activity error"}

\* ExecuteActivity: an attempt of an activity begins.
Attempt(act, n, input) ==
    [act |-> act, attempt |-> n, path |-> DestroyPath(act),
     key |-> DestroyStateKey(act, input.Name), region |-> input.Region,
     status |-> "running", err |-> Nil]

NoDestroy ==
    [pc |-> "idle", input |-> [Name |-> "", Region |-> ""], attempts |-> <<>>,
     got |-> <<>>, ret |-> [done |-> FALSE, err |-> Nil]]

\* The attempt that executes, or the last one.
LastAttempt == destroy.attempts[Len(destroy.attempts)]

Ended(status, err) ==
    [destroy.attempts EXCEPT ![Len(destroy.attempts)] = [@ EXCEPT !.status = status, !.err = err]]

\* Mutant: the VPC is destroyed whatever became of the subnets.
AfterDestroySubnetsGoesOn(err) == "vpc"

\* `if err := ...DestroySubnetsActivity...Get(ctx, nil); err != nil { return err }`
AfterDestroySubnets(err) == IF Failed(err) THEN "returned" ELSE "vpc"

\* The workflow is started, up to its first Get.
DestroyDemoNetworkStarts ==
    /\ destroy.pc = "idle"
    /\ \E input \in [Name : Names, Region : Regions] :
        destroy' = [destroy EXCEPT !.pc = "subnets", !.input = input,
                        !.attempts = <<Attempt(DestroySubnetsActivity, 1, input)>>]
    /\ UNCHANGED <<vars, execVars, output, planIn, planRes, bundle, pure>>

\* An attempt fails with an error that is retried: the server starts the
\* next attempt, and Get goes on waiting.
DestroyAttemptRetried ==
    /\ destroy.pc \in {"subnets", "vpc"}
    /\ LastAttempt.attempt < MaxAttempts
    /\ \E err \in AttemptErrors :
        destroy' = [destroy EXCEPT !.attempts =
                        Append(Ended("failed", err),
                               Attempt(LastAttempt.act, LastAttempt.attempt + 1, destroy.input))]
    /\ UNCHANGED <<vars, execVars, output, planIn, planRes, bundle, pure>>

\* Get returns: the attempt succeeded, or the activity failed for good.  The
\* workflow runs up to its next Get or to its return.
DestroyGetReturns ==
    /\ destroy.pc \in {"subnets", "vpc"}
    /\ \E err \in GetErrors \cup {Nil} :
        LET ended == Ended(IF Failed(err) THEN "failed" ELSE "ok", err)
            got == Append(destroy.got, [act |-> LastAttempt.act, err |-> err])
            to == IF destroy.pc = "subnets" THEN AfterDestroySubnets(err)
                  ELSE "returned"
        IN IF to = "vpc"
           THEN destroy' = [destroy EXCEPT !.pc = "vpc", !.got = got,
                                !.attempts = Append(ended, Attempt(DestroyVPCActivity, 1, destroy.input))]
           ELSE destroy' = [destroy EXCEPT !.pc = "returned", !.got = got, !.attempts = ended,
                                !.ret = [done |-> TRUE, err |-> err]]
    /\ UNCHANGED <<vars, execVars, output, planIn, planRes, bundle, pure>>

NextDestroy ==
    \/ DestroyDemoNetworkStarts
    \/ DestroyAttemptRetried
    \/ DestroyGetReturns

----------------------------------------------------------------------------
\* parseJson of the tfexec client.  A wire value (json.RawMessage) is the
\* sequence of its JSON tokens; a string token holds the pieces of its text
\* between the quotes, an escape being one piece.

\* Number of elements of the arrays that are tried.
MaxElems == 3

Token(k, text) == [k |-> k, s |-> text, n |-> 0]
Str(text) == Token("string", text)
Number(n) == [k |-> "int", s |-> <<>>, n |-> n]

\* Tokens that are no string and no integer that fits an int: a number
\* with a fraction, one too large for an int, the literals, the brackets.
Float == Token("float", <<>>)
BigInt == Token("bigint", <<>>)
Null == Token("null", <<>>)
True == Token("true", <<>>)
Open == Token("[", <<>>)
Close == Token("]", <<>>)
Comma == Token(",", <<>>)
Colon == Token(":", <<>>)
ObjOpen == Token("{", <<>>)
ObjClose == Token("}", <<>>)

\* The text of a JSON string: each escape gives the character it stands for.
Unquote(text) ==
    [i \in DOMAIN text |->
        CASE text[i] = "\\n" -> "LF"
          [] text[i] = "\\\"" -> "\""
          [] OTHER -> text[i]]

\* The elements an array is made of.
Elements == {Str(<<"a">>), Str(<<"b", "\\n">>), Null, Number(1), True}

\* The tokens of an array of the given elements.
RECURSIVE Joined(_)
Joined(es) ==
    IF es = <<>> THEN <<>>
    ELSE IF Len(es) = 1 THEN es
    ELSE <<Head(es), Comma>> \o Joined(Tail(es))
Array(es) == <<Open>> \o Joined(es) \o <<Close>>

\* The wire values parseJson is called with.
Wires ==
    {<<Str(<<"hello">>)>>, <<Str(<<>>)>>, <<Str(<<"a", "\\\"", "\\n">>)>>,
     <<Number(42)>>, <<Number(0)>>, <<Number(-1)>>, <<Float>>, <<BigInt>>, <<Null>>, <<True>>,
     <<ObjOpen, Str(<<"x">>), Colon, Number(1), ObjClose>>,
     <<Open, Open, Str(<<"a">>), Close, Close>>,
     <<Open, Str(<<"a">>), Comma, Close>>,
     <<Open, Str(<<"a">>)>>,
     <<>>}
        \cup {Array(es) : es \in UNION {[1..n -> Elements] : n \in 0..MaxElems}}

\* What json.Unmarshal did with its target: whether it returned no error,
\* and the target after it.
Decoded(ok, str, list, n) == [ok |-> ok, s |-> str, ss |-> list, n |-> n]
DecodeError == Decoded(FALSE, <<>>, <<>>, 0)

\* json.Unmarshal(message, &s) with s a string: a string is decoded, null
\* leaves the target as it is and is no error, anything else is an error.
UnmarshalString(m) ==
    IF Len(m) = 1 /\ m[1].k = "string" THEN Decoded(TRUE, Unquote(m[1].s), <<>>, 0)
    ELSE IF m = <<Null>> THEN Decoded(TRUE, <<>>, <<>>, 0)
    ELSE DecodeError

\* The tokens between the brackets are elements with commas between them.
IsElementList(inner) ==
    \/ inner = <<>>
    \/ /\ Len(inner) % 2 = 1
       /\ \A i \in DOMAIN inner : i % 2 = 0 => inner[i] = Comma

\* json.Unmarshal(message, &ss) with ss a []string: an array whose
\* elements are strings or null is decoded (null gives the empty string),
\* null leaves the target as it is, anything else is an error.
UnmarshalStrings(m) ==
    IF m = <<Null>> THEN Decoded(TRUE, <<>>, <<>>, 0)
    ELSE IF Len(m) >= 2 /\ m[1] = Open /\ m[Len(m)] = Close
    THEN LET inner == SubSeq(m, 2, Len(m) - 1)
             count == (Len(inner) + 1) \div 2
         IN IF /\ IsElementList(inner)
               /\ \A i \in 1..count : inner[2 * i - 1].k \in {"string", "null"}
            THEN Decoded(TRUE, <<>>,
                         [i \in 1..count |-> IF inner[2 * i - 1].k = "string"
                                             THEN Unquote(inner[2 * i - 1].s) ELSE <<>>],
                         0)
            ELSE DecodeError
    ELSE DecodeError

\* json.Unmarshal(message, &n) with n an int: an integer that fits is
\* decoded, null leaves the target as it is, anything else is an error.
UnmarshalInt(m) ==
    IF Len(m) = 1 /\ m[1].k = "int" THEN Decoded(TRUE, <<>>, <<>>, m[1].n)
    ELSE IF m = <<Null>> THEN Decoded(TRUE, <<>>, <<>>, 0)
    ELSE DecodeError

\* What parseJson returns: a string, a []string, an int, or the message.
Parsed(kind, d, raw) == [kind |-> kind, s |-> d.s, ss |-> d.ss, n |-> d.n, raw |-> raw]

\* A parseJson that returns nothing for what it cannot decode.
ParseJsonDropsRaw(message) ==
    IF UnmarshalString(message).ok THEN Parsed("string", UnmarshalString(message), <<>>)
    ELSE IF UnmarshalStrings(message).ok THEN Parsed("[]string", UnmarshalStrings(message), <<>>)
    ELSE IF UnmarshalInt(message).ok THEN Parsed("int", UnmarshalInt(message), <<>>)
    ELSE Parsed("raw", DecodeError, <<>>)

\* parseJson.
ParseJson(message) ==
    IF UnmarshalString(message).ok THEN Parsed("string", UnmarshalString(message), <<>>)
    ELSE IF UnmarshalStrings(message).ok THEN Parsed("[]string", UnmarshalStrings(message), <<>>)
    ELSE IF UnmarshalInt(message).ok THEN Parsed("int", UnmarshalInt(message), <<>>)
    ELSE Parsed("raw", DecodeError, message)

NoJsonRun == [message |-> <<>>, done |-> FALSE, out |-> Parsed("raw", DecodeError, <<>>)]

\* parseJson returns.
ParseJsonReturns ==
    /\ ~jsonRun.done
    /\ jsonRun' = [jsonRun EXCEPT !.done = TRUE, !.out = ParseJson(jsonRun.message)]
    /\ UNCHANGED <<vars, execVars, destroy, output, planIn, planRes, bundle, envRun, relay>>

NextJson ==
    \/ ParseJsonReturns

----------------------------------------------------------------------------
\* tfexec.terraformExec, tfworkspace.Workspace and heartbeat.Begin.
\*
\* Time passes in steps of one poll interval: a Tick wakes every watcher that
\* sleeps in its polling loop.  Everything else is interleaved freely.

\* Number of entries of ApplyInput.AttemptImport.
MaxImports == 1

\* time.After(200 * time.Millisecond) and time.Now().Add(30 * time.Second).
PollMs == 200
DeadlineMs == 30000

CtxCanceled == "context canceled"
ErrProcessDone == "os: process already finished"

NewCmd(name) ==
    [cmd |-> name, proc |-> "none", status |-> "", exited |-> FALSE,
     innerDone |-> FALSE, w |-> "none", woke |-> "", polls |-> 0]

\* An invocation that returned, when the next one begins.  Its child is gone,
\* so its watcher can only signal a process group that no longer exists: the
\* watcher is followed no further.
Retired(c) == [NewCmd(c.cmd) EXCEPT !.proc = c.proc, !.exited = c.exited,
                                    !.innerDone = c.innerDone, !.w = "detached"]

\* The invocation of terraformExec that is executing, or the last one.
cur == Len(cmds)

SetCmd(i, c) == [cmds EXCEPT ![i] = c]

\* errors.Is(err, target) for errors that wrap nothing.
ErrorsIs(err, target) == err = target

\* `errors.Is(os.ErrProcessDone, err)` for the error of syscall.Kill.
IsProcessDone(err) == ErrorsIs(ErrProcessDone, err)

\* What syscall.Kill(-pid, sig) can return: the group is gone once the child
\* is reaped; a signal to a live or zombie child is delivered, or refused.
KillResults(c) == IF c.proc = "reaped" THEN {"ESRCH"} ELSE {Nil, "EPERM"}

\* A SIGKILL that the child survives.
KilledSurvives(c) == c

\* SIGKILL to the group and Process.Kill: a running child is dead at once.
Killed(c) == IF c.proc = "running" THEN [c EXCEPT !.proc = "zombie", !.status = "killed"] ELSE c

\* `time.Now().Before(deadline)` is false after n sleeps.
DeadlinePassed(n) == n * PollMs >= DeadlineMs

\* A cmd.Wait that returns while the child runs.
WaitCanReturnAlways(c) == TRUE

\* cmd.Wait returns once the child has exited.
WaitCanReturn(c) == c.proc = "zombie"

\* A wait that gives up with the error of the context once it is cancelled.
WaitErrorOfContext(status, copyFailed) ==
    IF ctxDone THEN CtxCanceled
    ELSE IF status # "ok" \/ copyFailed THEN "terraform error" ELSE Nil

\* The error terraformExec makes of the error of cmd.Wait: the child exited
\* with a failing status, or the copying of its output failed.
WaitError(status, copyFailed) ==
    IF status # "ok" \/ copyFailed THEN "terraform error" ELSE Nil

\* A watcher that waits on the context of the caller.
WatcherCtxDoneOuter(c) == ctxDone

\* The context the watcher waits on: derived from the caller's, or cancelled
\* by the deferred cancel().
WatcherCtxDone(c) == ctxDone \/ c.innerDone

\* A terraformExec that starts the command whatever the context says.
CancelledBeforeStartNever == FALSE

\* A check that looks at the worker-stop channel in place of the context.
CancelledBeforeStartByWorker == workerStop

\* `if ctx.Err() != nil` before the command is started.
CancelledBeforeStart == ctxDone

\* A loop that does not look at the context after an import.
CancelledAfterImportNever == FALSE

\* A check after an import that also ends the call when the import failed.
CancelledAfterImportOrFailed == ctxDone \/ Failed(execErr)

\* `if ctx.Err() != nil` after an import.
CancelledAfterImport == ctxDone

Signal(c, sig, res) == [sig |-> sig, proc |-> c.proc, polls |-> c.polls, res |-> res]

\* A call of terraformExec begins.
EnterExec(name) ==
    /\ cmds' = Append([i \in DOMAIN cmds |-> Retired(cmds[i])], NewCmd(name))
    /\ sigs' = <<>>
    /\ execPc' = "check"
    /\ execErr' = Nil

\* A return that leaves the directory behind.
ReturnCallKeepsDir(err, out) ==
    /\ call' = [call EXCEPT !.pc = "returned", !.err = err, !.out = out]
    /\ workDir' = workDir
    /\ execPc' = "out"

\* A return after which the directory is still there.
ReturnWithKeepsDir(c, err, out) ==
    /\ call' = [c EXCEPT !.pc = "returned", !.err = err, !.out = out]
    /\ workDir' = workDir
    /\ execPc' = "out"

\* A return of Workspace.Apply or Workspace.Destroy after the directory was
\* made: the deferred os.RemoveAll runs.  c is the call with the client
\* methods it has called so far.
ReturnWith(c, err, out) ==
    /\ call' = [c EXCEPT !.pc = "returned", !.err = err, !.out = out]
    /\ workDir' = "removed"
    /\ execPc' = "out"

ReturnCall(err, out) == ReturnWith(call, err, out)

\* What `terraform output -json` reports: for some of the names the wire
\* value of the output.
OutputWires ==
    {<<Str(<<"vpc-1">>)>>, Array(<<Str(<<"a">>), Str(<<"b", "\\n">>)>>), <<Number(42)>>,
     <<ObjOpen, Str(<<"x">>), Colon, Number(1), ObjClose>>}
ReportedOutputs ==
    UNION {[names -> OutputWires] : names \in SUBSET {"vpc_id", "subnet_ids"}}

\* An output whose values are left as they were reported.
OutputValuesUndecoded(reported) ==
    [k \in DOMAIN reported |-> Parsed("raw", DecodeError, reported[k])]

\* Terraform.Output decodes the value of every name with parseJson, and
\* Workspace.Apply copies name and value to ApplyOutput.Output.
OutputValues(reported) == [k \in DOMAIN reported |-> ParseJson(reported[k])]

\* The client methods a call has called, in order.
Tried(c, method) == [c EXCEPT !.tried = Append(@, method)]

\* Of the failures before terraform init runs, those that happen inside
\* Terraform.Init (the others happen before it is called).
InitCalled(fail) == fail \in {"credentials error", "backend write error"}

\* Workspace.Apply or Workspace.Destroy is called, up to terraform init.
WorkspaceCall ==
    /\ call.pc = "idle"
    /\ \E kind \in {"Apply", "Destroy"}, n \in 0..MaxImports,
          fail \in {Nil, "error creating terraform workspace", "error extracting terraform",
                    "terraform not found", "credentials error", "backend write error"} :
        /\ kind = "Destroy" => n = 0
        /\ IF fail = "error creating terraform workspace"
           THEN /\ call' = [call EXCEPT !.kind = kind, !.n = n, !.pc = "returned", !.err = fail]
                /\ UNCHANGED <<workDir, execPc, execErr, cmds, sigs>>
           ELSE IF Failed(fail)
           THEN /\ ReturnWith([call EXCEPT !.kind = kind, !.n = n,
                                            !.tried = IF InitCalled(fail) THEN <<"Init">> ELSE <<>>],
                               fail, "none")
                /\ UNCHANGED <<execErr, cmds, sigs>>
           ELSE /\ call' = [call EXCEPT !.kind = kind, !.pc = "init", !.imports = n,
                                        !.n = n, !.tried = <<"Init">>]
                /\ workDir' = "exists"
                /\ EnterExec("init")
    /\ UNCHANGED <<workerStop, ctxDone, cancelAt>>
    /\ UNCHANGED <<vars, aside>>

\* terraformExec checks the context before starting the command.
ExecCheckCtx ==
    /\ execPc = "check"
    /\ IF CancelledBeforeStart
       THEN /\ execPc' = "ret"
            /\ execErr' = CtxCanceled
            /\ cmds' = SetCmd(cur, [cmds[cur] EXCEPT !.exited = TRUE])
       ELSE /\ execPc' = "start"
            /\ UNCHANGED <<execErr, cmds, sigs>>
    /\ UNCHANGED <<call, workDir, workerStop, ctxDone, cancelAt, sigs>>
    /\ UNCHANGED <<vars, aside>>

\* cmd.Start: on success the child runs and the watcher goroutine is started.
ExecStart ==
    /\ execPc = "start"
    /\ \E ok \in BOOLEAN :
        IF ok
        THEN /\ cmds' = SetCmd(cur, [cmds[cur] EXCEPT !.proc = "running", !.w = "waiting"])
             /\ execPc' = "wait"
             /\ UNCHANGED execErr
        ELSE /\ cmds' = SetCmd(cur, [cmds[cur] EXCEPT !.exited = TRUE])
             /\ execPc' = "ret"
             /\ execErr' = "terraform start command error"
    /\ UNCHANGED <<call, workDir, workerStop, ctxDone, cancelAt, sigs>>
    /\ UNCHANGED <<vars, aside>>

\* The child exits by itself, whether or not it was interrupted.
ProcExits ==
    /\ \E i \in DOMAIN cmds, status \in {"ok", "failed"} :
        /\ cmds[i].proc = "running"
        /\ cmds' = SetCmd(i, [cmds[i] EXCEPT !.proc = "zombie", !.status = status])
    /\ UNCHANGED <<call, workDir, workerStop, ctxDone, cancelAt, execPc, execErr, sigs>>
    /\ UNCHANGED <<vars, aside>>

\* cmd.Wait returns.
ExecWait ==
    /\ execPc = "wait"
    /\ WaitCanReturn(cmds[cur])
    /\ cmds' = SetCmd(cur, [cmds[cur] EXCEPT !.proc =
                                IF @ = "zombie" THEN "reaped" ELSE @])
    /\ execErr' = WaitError(cmds[cur].status, output.broken)
    /\ execPc' = "deferCancel"
    /\ UNCHANGED <<call, workDir, workerStop, ctxDone, cancelAt, sigs>>
    /\ UNCHANGED <<vars, aside>>

\* The deferred cancel(), the first of the two deferred calls to run.
ExecDeferCancel ==
    /\ execPc = "deferCancel"
    /\ cmds' = SetCmd(cur, [cmds[cur] EXCEPT !.innerDone = TRUE])
    /\ execPc' = "deferExited"
    /\ UNCHANGED <<call, workDir, workerStop, ctxDone, cancelAt, execErr, sigs>>
    /\ UNCHANGED <<vars, aside>>

\* `exited = true`.  A watcher that polls returns at its next poll whatever
\* the time is, so the count of its polls is dropped.
SetExited(c) == [c EXCEPT !.exited = TRUE, !.polls = IF c.w = "poll" THEN 0 ELSE @]

\* The deferred `exited = true`, and the return to the caller.
ExecDeferExited ==
    /\ execPc = "deferExited"
    /\ cmds' = SetCmd(cur, SetExited(cmds[cur]))
    /\ execPc' = "ret"
    /\ UNCHANGED <<call, workDir, workerStop, ctxDone, cancelAt, execErr, sigs>>
    /\ UNCHANGED <<vars, aside>>

\* The watcher goroutine: `<-ctx.Done()` returns and `exited` is read.
WatcherWake ==
    /\ \E i \in DOMAIN cmds :
        /\ cmds[i].w = "waiting"
        /\ WatcherCtxDone(cmds[i])
        /\ cmds' = SetCmd(i, [cmds[i] EXCEPT !.w = IF cmds[i].exited THEN "done" ELSE "sigint",
                                              !.woke = cmds[i].proc])
    /\ UNCHANGED <<call, workDir, workerStop, ctxDone, cancelAt, execPc, execErr, sigs>>
    /\ UNCHANGED <<vars, aside>>

\* The watcher goroutine: SIGINT to the process group.
WatcherSigint ==
    /\ \E i \in DOMAIN cmds :
        /\ cmds[i].w = "sigint"
        /\ \E res \in KillResults(cmds[i]) :
            /\ sigs' = Append(sigs, Signal(cmds[i], "SIGINT", res))
            /\ cmds' = SetCmd(i, [cmds[i] EXCEPT !.w =
                            IF ~Failed(res) THEN "poll"
                            ELSE IF IsProcessDone(res) THEN "done"
                            ELSE "killNow"])
    /\ UNCHANGED <<call, workDir, workerStop, ctxDone, cancelAt, execPc, execErr>>
    /\ UNCHANGED <<vars, aside>>

\* The watcher goroutine: SIGKILL and Process.Kill after a failed SIGINT; the
\* polling loop follows.
WatcherKillNow ==
    /\ \E i \in DOMAIN cmds :
        /\ cmds[i].w = "killNow"
        /\ sigs' = Append(sigs, Signal(cmds[i], "SIGKILL", Nil))
        /\ cmds' = SetCmd(i, [Killed(cmds[i]) EXCEPT !.w = "poll"])
    /\ UNCHANGED <<call, workDir, workerStop, ctxDone, cancelAt, execPc, execErr>>
    /\ UNCHANGED <<vars, aside>>

\* One iteration of the polling loop, from the sleep to the loop condition.
PollOnce(c) ==
    LET n == c.polls + 1
    IN IF c.exited THEN [c EXCEPT !.polls = 0, !.w = "done"]
       ELSE IF DeadlinePassed(n) THEN [c EXCEPT !.polls = n, !.w = "killLate"]
       ELSE [c EXCEPT !.polls = n]

\* 200 ms pass: every sleeping watcher wakes and polls.
Tick ==
    /\ \E i \in DOMAIN cmds : cmds[i].w = "poll"
    /\ cmds' = [i \in DOMAIN cmds |-> IF cmds[i].w = "poll" THEN PollOnce(cmds[i]) ELSE cmds[i]]
    /\ UNCHANGED <<call, workDir, workerStop, ctxDone, cancelAt, execPc, execErr, sigs>>
    /\ UNCHANGED <<vars, aside>>

\* The watcher goroutine: SIGKILL and Process.Kill after the deadline.
WatcherKillLate ==
    /\ \E i \in DOMAIN cmds :
        /\ cmds[i].w = "killLate"
        /\ sigs' = Append(sigs, Signal(cmds[i], "SIGKILL", Nil))
        /\ cmds' = SetCmd(i, [Killed(cmds[i]) EXCEPT !.w = "done"])
    /\ UNCHANGED <<call, workDir, workerStop, ctxDone, cancelAt, execPc, execErr>>
    /\ UNCHANGED <<vars, aside>>

\* The worker is stopped.
WorkerStops ==
    /\ call.pc # "returned"
    /\ ~workerStop
    /\ workerStop' = TRUE
    /\ UNCHANGED <<call, workDir, ctxDone, cancelAt, execPc, execErr, cmds, sigs>>
    /\ UNCHANGED <<vars, aside>>

\* What is running when the context is cancelled.
Running == IF cmds = <<>> THEN [inv |-> 0, proc |-> "none"]
           ELSE [inv |-> cur, proc |-> cmds[cur].proc]

\* heartbeat.Begin: its goroutine cancels the context once the worker stops.
HeartbeatCancels ==
    /\ call.pc # "returned"
    /\ workerStop
    /\ ~ctxDone
    /\ ctxDone' = TRUE
    /\ cancelAt' = [set |-> TRUE, inv |-> Running.inv, proc |-> Running.proc,
                    at |-> call.pc, tried |-> Len(call.tried)]
    /\ UNCHANGED <<call, workDir, workerStop, execPc, execErr, cmds, sigs>>
    /\ UNCHANGED <<vars, aside>>

\* The context of the activity is cancelled: the derived one is, too.
ActivityCancelled ==
    /\ call.pc # "returned"
    /\ ~ctxDone
    /\ ctxDone' = TRUE
    /\ cancelAt' = [set |-> TRUE, inv |-> Running.inv, proc |-> Running.proc,
                    at |-> call.pc, tried |-> Len(call.tried)]
    /\ UNCHANGED <<call, workDir, workerStop, execPc, execErr, cmds, sigs>>
    /\ UNCHANGED <<vars, aside>>

\* Workspace.Apply: one turn of the import loop, or the apply after it.
ImportLoop ==
    /\ call.pc = "loop"
    /\ \E varsOk \in BOOLEAN :
        IF call.imports > 0
        THEN IF varsOk
             THEN /\ call' = [Tried(call, "Import") EXCEPT !.pc = "import", !.imports = @ - 1]
                  /\ EnterExec("import")
                  /\ UNCHANGED workDir
             ELSE IF CancelledAfterImport
                  THEN /\ ReturnWith(Tried(call, "Import"), CtxCanceled, "none")
                       /\ UNCHANGED <<execErr, cmds, sigs>>
                  ELSE /\ call' = [Tried(call, "Import") EXCEPT !.imports = @ - 1]
                       /\ UNCHANGED <<workDir, execPc, execErr, cmds, sigs>>
        ELSE IF varsOk
             THEN /\ call' = [Tried(call, "Apply") EXCEPT !.pc = "apply"]
                  /\ EnterExec("apply")
                  /\ UNCHANGED workDir
             ELSE /\ ReturnWith(Tried(call, "Apply"), "terraform apply error", "none")
                  /\ UNCHANGED <<execErr, cmds, sigs>>
    /\ UNCHANGED <<workerStop, ctxDone, cancelAt>>
    /\ UNCHANGED <<vars, aside>>

\* terraformExec returned to the Workspace call, which goes on to its next
\* subcommand or returns.
WorkspaceContinue ==
    /\ execPc = "ret"
    /\ \E envOk \in BOOLEAN :
        CASE call.pc = "init" ->
                IF Failed(execErr)
                THEN ReturnCall(execErr, "none") /\ UNCHANGED <<execErr, cmds, sigs>>
                ELSE IF ~envOk
                THEN ReturnCall("credentials error", "none") /\ UNCHANGED <<execErr, cmds, sigs>>
                ELSE IF call.kind = "Apply"
                THEN /\ call' = [call EXCEPT !.pc = "loop"]
                     /\ execPc' = "out"
                     /\ UNCHANGED <<workDir, execErr, cmds, sigs>>
                ELSE /\ call' = [Tried(call, "Destroy") EXCEPT !.pc = "destroy"]
                     /\ EnterExec("destroy")
                     /\ UNCHANGED workDir
          [] call.pc = "import" ->
                /\ envOk
                /\ IF CancelledAfterImport
                   THEN ReturnCall(CtxCanceled, "none") /\ UNCHANGED <<execErr, cmds, sigs>>
                   ELSE /\ call' = [call EXCEPT !.pc = "loop"]
                        /\ execPc' = "out"
                        /\ UNCHANGED <<workDir, execErr, cmds, sigs>>
          [] call.pc = "apply" ->
                /\ envOk
                /\ IF Failed(execErr)
                   THEN ReturnCall("terraform apply error", "none") /\ UNCHANGED <<execErr, cmds, sigs>>
                   ELSE /\ call' = [Tried(call, "Output") EXCEPT !.pc = "output"]
                        /\ EnterExec("output")
                        /\ UNCHANGED workDir
          [] call.pc = "output" ->
                IF Failed(execErr)
                THEN /\ envOk
                     /\ ReturnCall("terraform output error", "none")
                     /\ UNCHANGED <<execErr, cmds, sigs>>
                ELSE IF ~envOk
                THEN ReturnCall("terraform output error", "none") /\ UNCHANGED <<execErr, cmds, sigs>>
                ELSE /\ \E reported \in ReportedOutputs :
                        ReturnWith([call EXCEPT !.reported = reported,
                                                !.values = OutputValues(reported)],
                                   Nil, "output")
                     /\ UNCHANGED <<execErr, cmds, sigs>>
          [] call.pc = "destroy" ->
                /\ envOk
                /\ IF Failed(execErr)
                   THEN ReturnCall("terraform destroy error", "none")
                   ELSE ReturnCall(Nil, "none")
                /\ UNCHANGED <<execErr, cmds, sigs>>
    /\ UNCHANGED <<workerStop, ctxDone, cancelAt>>
    /\ UNCHANGED <<vars, aside>>

\* Nothing of a Workspace call has happened.
InitExec ==
    /\ call = [kind |-> "none", pc |-> "idle", imports |-> 0, n |-> 0, tried |-> <<>>,
               err |-> Nil, out |-> "none", reported |-> <<>>, values |-> <<>>,
               seq |-> 0]
    /\ workDir = "none"
    /\ workerStop = FALSE
    /\ ctxDone = FALSE
    /\ cancelAt = [set |-> FALSE, inv |-> 0, proc |-> "none", at |-> "idle", tried |-> 0]
    /\ execPc = "out"
    /\ execErr = Nil
    /\ cmds = <<>>
    /\ sigs = <<>>

NextExec ==
    \/ WorkspaceCall
    \/ ExecCheckCtx
    \/ ExecStart
    \/ ProcExits
    \/ ExecWait
    \/ ExecDeferCancel
    \/ ExecDeferExited
    \/ WatcherWake
    \/ WatcherSigint
    \/ WatcherKillNow
    \/ Tick
    \/ WatcherKillLate
    \/ WorkerStops
    \/ HeartbeatCancels
    \/ ActivityCancelled
    \/ ImportLoop
    \/ WorkspaceContinue

----------------------------------------------------------------------------
\* TerraformPlanActivity of a run: it makes a workspace from the bundle,
\* which runs terraform init and terraform plan in a directory of its own.

\* The activity invocation the workflow is waiting for.
Pending == Len(calls)

\* A Get that returns while the activity function executes.
ActivityReturnedEarly == call.seq = Pending

\* Get returns when the activity function has returned.
ActivityReturned == call.seq = Pending /\ call.pc = "returned"

\* The activity function is entered: heartbeat.Begin, terraformEnv, and the
\* workspace call up to terraform init.
PlanActivityStarts ==
    /\ pc = "Planning"
    /\ call.seq # Pending
    /\ \E fail \in {Nil, "credentials error", "error creating terraform workspace",
                    "error extracting terraform"} :
        LET fresh == [kind |-> "Plan", pc |-> "init", imports |-> 0, n |-> 0,
                      tried |-> <<>>, err |-> Nil, out |-> "none", reported |-> <<>>,
                      values |-> <<>>, seq |-> Pending]
        IN IF Failed(fail)
           THEN /\ call' = [fresh EXCEPT !.pc = "returned", !.err = fail]
                /\ workDir' = IF fail = "error extracting terraform" THEN "removed" ELSE "none"
                /\ cmds' = <<>>
                /\ execPc' = "out"
           ELSE /\ call' = fresh
                /\ workDir' = "exists"
                /\ cmds' = <<NewCmd("init")>>
                /\ execPc' = "check"
    /\ sigs' = <<>>
    /\ execErr' = Nil
    /\ UNCHANGED <<workerStop, ctxDone, cancelAt>>
    /\ UNCHANGED <<vars, aside>>

\* terraformExec returned to the workspace made from the bundle, whose Plan
\* runs init and then plan.
PlanWorkspaceContinue ==
    /\ execPc = "ret"
    /\ call.kind = "Plan"
    /\ IF call.pc = "init" /\ ~Failed(execErr)
       THEN /\ call' = [call EXCEPT !.pc = "plan"]
            /\ EnterExec("plan")
            /\ UNCHANGED workDir
       ELSE /\ ReturnCall(execErr, IF Failed(execErr) THEN "none" ELSE "plan")
            /\ UNCHANGED <<execErr, cmds, sigs>>
    /\ UNCHANGED <<workerStop, ctxDone, cancelAt>>
    /\ UNCHANGED <<vars, aside>>

\* The plan activity returned, and Get returns what it returned.
PlanReturns ==
    /\ ActivityReturned
    /\ PlanDone
    /\ calls'[Pending].status = (IF Failed(call.err) THEN "err" ELSE "ok")

NextRun ==
    \/ StartCreateDemoNetwork
    \/ BundleDone
    \/ PlanActivityStarts
    \/ ExecCheckCtx
    \/ ExecStart
    \/ ProcExits
    \/ ExecWait
    \/ ExecDeferCancel
    \/ ExecDeferExited
    \/ WatcherWake
    \/ WatcherSigint
    \/ WatcherKillNow
    \/ Tick
    \/ WatcherKillLate
    \/ WorkerStops
    \/ HeartbeatCancels
    \/ ActivityCancelled
    \/ PlanWorkspaceContinue
    \/ PlanReturns

----------------------------------------------------------------------------
\* The writers terraformExec gives the child: io.MultiWriter of the sink of
\* the caller and the terraformErrorInterceptor.

\* Number of writes the child makes.
MaxWrites == 2

\* Output is a sequence of pieces of text: blanks, line ends, the two halves
\* of the marker "Error:", and other text.
Space == {"sp", "nl"}
ErrorPrefix == <<"Err", "or:">>

\* What one write can carry: a plain line, an error line, an indented error
\* line, an error line after a plain one, and an error line cut in two.
Chunks ==
    { <<"x", "nl">>,
      <<"Err", "or:", "x", "nl">>,
      <<"sp", "Err", "or:", "x", "nl">>,
      <<"x", "nl", "Err", "or:", "x", "nl">>,
      <<"Err">>,
      <<"or:", "x", "nl">> }

RECURSIVE TrimLeft(_)
TrimLeft(s) == IF s # <<>> /\ Head(s) \in Space THEN TrimLeft(Tail(s)) ELSE s

RECURSIVE TrimRight(_)
TrimRight(s) ==
    IF s # <<>> /\ s[Len(s)] \in Space THEN TrimRight(SubSeq(s, 1, Len(s) - 1)) ELSE s

\* strings.TrimSpace and strings.HasPrefix
TrimSpace(s) == TrimRight(TrimLeft(s))
HasPrefix(s, prefix) == Len(s) >= Len(prefix) /\ SubSeq(s, 1, Len(prefix)) = prefix

\* `strings.HasPrefix(strings.TrimSpace(s), "Error:")`
IsErrorLine(p) == HasPrefix(TrimSpace(p), ErrorPrefix)

\* An interceptor that refuses error lines.
InterceptorWriteRejects(errors, p) ==
    IF IsErrorLine(p) THEN [errors |-> errors, n |-> 0, err |-> "error line"]
    ELSE [errors |-> errors, n |-> Len(p), err |-> Nil]

\* terraformErrorInterceptor.Write: the errors kept, and what it returns.
InterceptorWrite(errors, p) ==
    [errors |-> IF IsErrorLine(p) THEN Append(errors, p) ELSE errors,
     n |-> Len(p), err |-> Nil]

NoOutput == [written |-> <<>>, sink |-> <<>>, errors |-> <<>>, broken |-> FALSE,
             sinkFailed |-> FALSE]

\* Write of the MultiWriter: the sink first, then the interceptor; it fails
\* when one of them fails or takes less than all of p, and the copying of the
\* output ends.
MultiWriterWrite(o, p, sinkOk) ==
    IF ~sinkOk
    THEN [o EXCEPT !.written = Append(@, p), !.broken = TRUE, !.sinkFailed = TRUE]
    ELSE LET r == InterceptorWrite(o.errors, p)
         IN [o EXCEPT !.written = Append(@, p), !.sink = Append(@, p),
                      !.errors = r.errors,
                      !.broken = Failed(r.err) \/ r.n # Len(p)]

\* The child writes, and the write is copied to the MultiWriter.
ProcWrites ==
    /\ cmds # <<>>
    /\ cmds[cur].proc = "running"
    /\ ~output.broken
    /\ Len(output.written) < MaxWrites
    /\ \E p \in Chunks, sinkOk \in BOOLEAN : output' = MultiWriterWrite(output, p, sinkOk)
    /\ UNCHANGED <<vars, execVars, destroy, planIn, planRes, bundle, pure>>

\* A method of the client calls terraformExec; its context may be cancelled
\* already.
ExecCall ==
    /\ call.pc = "idle"
    /\ \E name \in {"init", "apply"}, cancelled \in BOOLEAN :
        /\ call' = [call EXCEPT !.kind = "exec", !.pc = "exec"]
        /\ EnterExec(name)
        /\ ctxDone' = cancelled
        /\ cancelAt' = [set |-> cancelled, inv |-> 0, proc |-> "none", at |-> "idle", tried |-> 0]
    /\ UNCHANGED <<workDir, workerStop>>
    /\ UNCHANGED <<vars, aside>>

\* terraformExec returns to the method.
ExecReturns ==
    /\ call.pc = "exec"
    /\ execPc = "ret"
    /\ call' = [call EXCEPT !.pc = "returned", !.err = execErr]
    /\ execPc' = "out"
    /\ UNCHANGED <<workDir, workerStop, ctxDone, cancelAt, execErr, cmds, sigs>>
    /\ UNCHANGED <<vars, aside>>

NextOutput ==
    \/ ExecCall
    \/ ExecCheckCtx
    \/ ExecStart
    \/ ProcWrites
    \/ ProcExits
    \/ ExecWait
    \/ ExecDeferCancel
    \/ ExecDeferExited
    \/ WatcherWake
    \/ WatcherSigint
    \/ WatcherKillNow
    \/ Tick
    \/ WatcherKillLate
    \/ ExecReturns

\* One call of terraformExec and the watcher goroutine it starts, with a
\* context that can be cancelled at any moment of the call.
NextWatch ==
    \/ ExecCall
    \/ ExecCheckCtx
    \/ ExecStart
    \/ ProcExits
    \/ ExecWait
    \/ ExecDeferCancel
    \/ ExecDeferExited
    \/ WatcherWake
    \/ WatcherSigint
    \/ WatcherKillNow
    \/ Tick
    \/ WatcherKillLate
    \/ WorkerStops
    \/ HeartbeatCancels
    \/ ActivityCancelled
    \/ ExecReturns

\* The watcher goroutine is scheduled whenever it can run, and time passes
\* while it sleeps.  Nothing is assumed of the child or of the caller.
WatcherFairness ==
    /\ WF_<<vars, others>>(WatcherWake)
    /\ WF_<<vars, others>>(WatcherSigint)
    /\ WF_<<vars, others>>(WatcherKillNow)
    /\ WF_<<vars, others>>(Tick)
    /\ WF_<<vars, others>>(WatcherKillLate)

----------------------------------------------------------------------------
\* The two copies of the output.  cmd.Stdout and cmd.Stderr are two
\* MultiWriters, so os/exec starts one copying goroutine for each, and both
\* write to the one terraformErrorInterceptor, whose Write reads and assigns
\* t.errors without a lock.

Streams == {"stdout", "stderr"}

\* What a stream carries in one write: a plain line or an error line, each
\* naming its stream.
StreamChunks(st) == {<<st, "nl">>, <<"Err", "or:", st, "nl">>}

\* A stream before anything of it was copied.
NewStream(todo) == [todo |-> todo, pc |-> "read", p |-> <<>>, seen |-> <<>>, copied |-> <<>>]

NoRelay ==
    [streams |-> [st \in Streams |-> NewStream(<<>>)], errors |-> <<>>,
     pc |-> "none", err |-> Nil, kept |-> <<>>]

\* The children that are followed: each stream carries up to MaxWrites
\* writes.
Relays ==
    {[NoRelay EXCEPT !.pc = "wait",
                     !.streams = [st \in Streams |-> NewStream(IF st = "stdout" THEN o ELSE e)]] :
        o \in UNION {[1..n -> StreamChunks("stdout")] : n \in 0..MaxWrites},
        e \in UNION {[1..n -> StreamChunks("stderr")] : n \in 0..MaxWrites}}

\* `t.errors = append(t.errors, s)`, with t.errors as it was read.
AppendError(seen, p) == Append(seen, p)

\* A goroutine reads a chunk from its pipe and writes it to its
\* MultiWriter; the interceptor's Write tests it and, for an error line,
\* reads t.errors.
RelayWrite(st) ==
    /\ relay.pc = "wait"
    /\ relay.streams[st].pc = "read"
    /\ relay.streams[st].todo # <<>>
    /\ LET p == Head(relay.streams[st].todo)
       IN relay' = [relay EXCEPT !.streams[st] =
                        [@ EXCEPT !.todo = Tail(@), !.copied = Append(@, p), !.p = p,
                                  !.seen = IF IsErrorLine(p) THEN relay.errors ELSE <<>>,
                                  !.pc = IF IsErrorLine(p) THEN "append" ELSE "read"]]
    /\ UNCHANGED <<vars, execVars, destroy, output, planIn, planRes, bundle, envRun, jsonRun>>

\* The interceptor's Write assigns t.errors and returns.
RelayAppend(st) ==
    /\ relay.pc = "wait"
    /\ relay.streams[st].pc = "append"
    /\ relay' = [relay EXCEPT !.errors = AppendError(relay.streams[st].seen, relay.streams[st].p),
                              !.streams[st] = [@ EXCEPT !.pc = "read", !.p = <<>>, !.seen = <<>>]]
    /\ UNCHANGED <<vars, execVars, destroy, output, planIn, planRes, bundle, envRun, jsonRun>>

\* The child has closed the stream and the goroutine ends.
RelayEnds(st) ==
    /\ relay.pc = "wait"
    /\ relay.streams[st].pc = "read"
    /\ relay.streams[st].todo = <<>>
    /\ relay' = [relay EXCEPT !.streams[st].pc = "done"]
    /\ UNCHANGED <<vars, execVars, destroy, output, planIn, planRes, bundle, envRun, jsonRun>>

\* cmd.Wait returns when the child has exited and both goroutines have
\* ended.
RelaysDone(r) == \A st \in Streams : r.streams[st].pc = "done"

\* cmd.Wait returns, and for a failure the error is built from t.errors.
RelayWaitReturns ==
    /\ relay.pc = "wait"
    /\ RelaysDone(relay)
    /\ \E status \in {"ok", "failed"} :
        relay' = [relay EXCEPT !.pc = "returned", !.err = WaitError(status, FALSE),
                               !.kept = IF status = "failed" THEN relay.errors ELSE <<>>]
    /\ UNCHANGED <<vars, execVars, destroy, output, planIn, planRes, bundle, envRun, jsonRun>>

NextRelay ==
    \/ \E st \in Streams : RelayWrite(st)
    \/ \E st \in Streams : RelayAppend(st)
    \/ \E st \in Streams : RelayEnds(st)
    \/ RelayWaitReturns

----------------------------------------------------------------------------
\* BundleBuilder.BundleForApply and BundleBuilder.BundleForDestroy.

\* Number of entries of the metadata map.
MaxMetadata == 1

\* A path is the sequence of its pieces, the separator "/" being a piece of
\* its own and a leading dot of a name too.
Slash == <<"/">>

\* The roots given to Source: a directory of the file system, and "." for the
\* file system itself.
Roots == {<<"terraform">>, <<".">>}

\* The files fs.WalkDir finds under the root, in its order, each with its
\* path relative to the root and its bytes.
File(rel, data) == [rel |-> rel, data |-> data]
SourceTrees ==
    {<<>>,
     <<File(<<"main.tf">>, "main")>>,
     <<File(<<"main.tf">>, "main"), File(<<"versions.tf">>, "versions")>>,
     <<File(<<"_backend.tf">>, "own backend"), File(<<"main.tf">>, "main")>>,
     <<File(<<"main.tf">>, "main"), File(<<"terraform.tfvars.json">>, "own vars")>>,
     <<File(<<"__metadata", "/", "k1">>, "own k1"), File(<<"main.tf">>, "main")>>,
     <<File(<<".", "terraform.lock.hcl">>, "lock"), File(<<"modules", "/", "vpc.tf">>, "vpc")>>}

\* The keys of the metadata map.
MetadataKeys == 1..MaxMetadata
MetadataName(k) == IF k = 1 THEN "k1" ELSE "k2"

\* strings.HasPrefix and strings.TrimPrefix on paths.
PathHasPrefix(s, prefix) ==
    /\ Len(s) >= Len(prefix)
    /\ SubSeq(s, 1, Len(prefix)) = prefix
TrimPrefix(s, prefix) ==
    IF PathHasPrefix(s, prefix) THEN SubSeq(s, Len(prefix) + 1, Len(s)) ELSE s

\* path.Join(a, b) of two clean paths: "." joined with b is b.
PathJoin(a, b) == IF a = <<".">> THEN b ELSE a \o Slash \o b

\* The path fs.WalkDir hands to the callback for a file of the tree.
WalkPath(root, rel) == PathJoin(root, rel)

\* `strings.TrimPrefix(strings.TrimPrefix(path, b.root), "/")`.
ZipPath(root, path) == TrimPrefix(TrimPrefix(path, root), Slash)

Entry(name, data) == [name |-> name, data |-> data]

NoBundle ==
    [kind |-> "none", pc |-> "idle", root |-> <<>>, tree |-> <<>>, files |-> <<>>,
     backend |-> FALSE, keys |-> {}, metadata |-> {},
     file |-> "none", entries |-> <<>>, path |-> "", err |-> Nil]

\* A cleanup that leaves the file.
CleanupNever(file, err) == file

\* The deferred cleanup: `if retErr != nil { os.RemoveAll(zipFile.Name()) }`.
Cleanup(file, err) == IF Failed(err) THEN "removed" ELSE file

\* A return after os.CreateTemp succeeded.
BundleReturn(b, path, err) ==
    [b EXCEPT !.pc = "returned", !.path = path, !.err = err, !.file = Cleanup(b.file, err)]

\* zipWriter.Create(name) and the write of the entry: the entry is added, or
\* one of the two fails and the call returns.
AddEntry(b, entry, next, fail) ==
    IF Failed(fail) THEN BundleReturn(b, "", fail)
    ELSE [b EXCEPT !.entries = Append(@, entry), !.pc = next]

\* The call, up to os.CreateTemp.
BundleCall ==
    /\ bundle.pc = "idle"
    /\ \E kind \in {"Apply", "Destroy"}, fsys \in BOOLEAN, root \in Roots,
          files \in SourceTrees, backend \in BOOLEAN, keys \in SUBSET MetadataKeys,
          created \in BOOLEAN :
        LET b == [bundle EXCEPT !.kind = kind, !.root = root, !.tree = files,
                                !.files = files, !.backend = backend,
                                !.keys = keys, !.metadata = keys]
        IN bundle' =
            IF ~fsys
            THEN [b EXCEPT !.pc = "returned", !.err = "cannot bundle terraform without fs and root"]
            ELSE IF ~created
            THEN [b EXCEPT !.pc = "returned", !.err = "create temp error"]
            ELSE [b EXCEPT !.pc = "source", !.file = "exists"]
    /\ UNCHANGED <<vars, execVars, destroy, output, planIn, planRes, pure>>

\* BundleForApply: one file of the walk, under its rewritten path.
\* BundleForDestroy: versions.tf of the root.
BundleSource ==
    /\ bundle.pc = "source"
    /\ \E fail \in {Nil, "read error", "zip create error", "zip write error"} :
        bundle' =
            IF bundle.kind = "Destroy"
            THEN LET found == {i \in DOMAIN bundle.files :
                                 WalkPath(bundle.root, bundle.files[i].rel)
                                     = PathJoin(bundle.root, <<"versions.tf">>)}
                 IN IF found = {}
                    THEN BundleReturn(bundle, "", "file does not exist")
                    ELSE AddEntry(bundle,
                                  Entry(<<"versions.tf">>,
                                        bundle.files[CHOOSE i \in found : TRUE].data),
                                  "backend", fail)
            ELSE IF bundle.files = <<>>
            THEN [bundle EXCEPT !.pc = "backend"]
            ELSE LET f == Head(bundle.files)
                 IN AddEntry([bundle EXCEPT !.files = Tail(@)],
                             Entry(ZipPath(bundle.root, WalkPath(bundle.root, f.rel)), f.data),
                             "source", fail)
    /\ UNCHANGED <<vars, execVars, destroy, output, planIn, planRes, pure>>

\* The backend configuration, when there is one.
BundleBackend ==
    /\ bundle.pc = "backend"
    /\ LET next == IF bundle.kind = "Apply" THEN "vars" ELSE "metadata"
       IN \E fail \in {Nil, "error templating s3 backend config", "zip create error",
                       "zip write error"} :
            bundle' = IF bundle.backend
                      THEN AddEntry(bundle, Entry(<<"_backend.tf">>, "backendConfig"), next, fail)
                      ELSE [bundle EXCEPT !.pc = next]
    /\ UNCHANGED <<vars, execVars, destroy, output, planIn, planRes, pure>>

\* BundleForApply: the variables.
BundleVars ==
    /\ bundle.pc = "vars"
    /\ \E fail \in {Nil, "zip create error", "json marshal error", "zip write error"} :
        bundle' = AddEntry(bundle, Entry(<<"terraform.tfvars.json">>, "varsJSON"),
                           "metadata", fail)
    /\ UNCHANGED <<vars, execVars, destroy, output, planIn, planRes, pure>>

\* One entry of the metadata, in the order the map gives, or the end of the
\* loop.
BundleMetadata ==
    /\ bundle.pc = "metadata"
    /\ \E fail \in {Nil, "zip create error", "zip write error"} :
        IF bundle.metadata = {}
        THEN bundle' = [bundle EXCEPT !.pc = "close"]
        ELSE \E k \in bundle.metadata :
                bundle' = AddEntry([bundle EXCEPT !.metadata = @ \ {k}],
                                   Entry(PathJoin(<<"__metadata">>, <<MetadataName(k)>>), "md"),
                                   "metadata", fail)
    /\ UNCHANGED <<vars, execVars, destroy, output, planIn, planRes, pure>>

\* zipWriter.Close, and the return of the path.
BundleClose ==
    /\ bundle.pc = "close"
    /\ \E fail \in {Nil, "zip close error"} :
        bundle' = IF Failed(fail) THEN BundleReturn(bundle, "", fail)
                  ELSE BundleReturn(bundle, "tf-bundle.zip", Nil)
    /\ UNCHANGED <<vars, execVars, destroy, output, planIn, planRes, pure>>

NextBundle ==
    \/ BundleCall
    \/ BundleSource
    \/ BundleBackend
    \/ BundleVars
    \/ BundleMetadata
    \/ BundleClose

----------------------------------------------------------------------------
\* The environment of the subprocess: the mapping its caller builds, the Env
\* terraformExec gives the command, and what cmd.Start hands to the child.

\* An entry of an environment: fmt.Sprintf("%s=%s", k, v).
EnvString(k, v) == <<k, "=", v>>

\* The maps from some of the keys to the values.
Maps(keys, values) == UNION {[ks -> values] : ks \in SUBSET keys}

\* The environment of the worker process, os.Environ().
Ambients ==
    {{},
     {EnvString("HOME", "/root")},
     {EnvString("HOME", "/root"), EnvString("AWS_PROFILE", "admin")}}

\* The Env of the caller: ApplyInput.Env, the activity's mergeEnv,
\* S3BackendConfig.Env.  A nil map and an empty one are the same to range.
CallerEnvs == Maps({"TF_LOG", "AWS_ACCESS_KEY_ID"}, {"caller"})

\* The variables made from the retrieved credentials.
CredentialsEnv ==
    [k \in {"AWS_ACCESS_KEY_ID", "AWS_SECRET_ACCESS_KEY", "AWS_SESSION_TOKEN"} |-> "creds"]

\* `for k, v := range b { a[k] = v }`.
Override(a, b) ==
    [k \in DOMAIN a \cup DOMAIN b |-> IF k \in DOMAIN b THEN b[k] ELSE a[k]]

\* Terraform.Init passes Backend.Env as it is.
InitEnvMap(caller) == caller

\* Workspace.Apply and Workspace.Destroy: a copy of input.Env, then the
\* credentials when a provider is set.
WorkspaceEnvMap(caller, creds) ==
    IF creds THEN Override(caller, CredentialsEnv) ELSE caller

\* terraformEnv of the activities: the credentials, then mergeEnv over them.
TerraformEnvMap(caller) == Override(CredentialsEnv, caller)

\* `var cmdEnv []string` and one append per entry of run.env: the slice is
\* nil when the map has no entry.
CmdEnv(env) ==
    [isNil |-> DOMAIN env = {}, entries |-> {EnvString(k, env[k]) : k \in DOMAIN env}]

\* os/exec: a command whose Env is nil runs with the environment of the
\* current process.
ChildEnv(cmdEnv, ambient) == IF cmdEnv.isNil THEN ambient ELSE cmdEnv.entries

NoEnvRun ==
    [pc |-> "idle", by |-> "none", caller |-> <<>>, creds |-> FALSE, ambient |-> {},
     env |-> <<>>, cmdEnv |-> CmdEnv(<<>>), child |-> {}]

\* The calls that are followed: who builds the mapping, from what, in which
\* worker environment.
EnvRuns ==
    {[NoEnvRun EXCEPT !.pc = "called", !.by = by, !.caller = caller, !.creds = creds,
                      !.ambient = ambient] :
        by \in {"Init", "Workspace", "Activity"}, caller \in CallerEnvs,
        creds \in BOOLEAN, ambient \in Ambients}

\* The caller of terraformExec builds the mapping.
BuildEnv ==
    /\ envRun.pc = "called"
    /\ envRun' = [envRun EXCEPT
            !.pc = "built",
            !.env = CASE envRun.by = "Init" -> InitEnvMap(envRun.caller)
                      [] envRun.by = "Workspace" -> WorkspaceEnvMap(envRun.caller, envRun.creds)
                      [] envRun.by = "Activity" -> TerraformEnvMap(envRun.caller)]
    /\ UNCHANGED <<vars, execVars, destroy, output, planIn, planRes, bundle, jsonRun, relay>>

\* terraformExec makes the command and sets its Env.
ExecSetsEnv ==
    /\ envRun.pc = "built"
    /\ envRun' = [envRun EXCEPT !.pc = "cmd", !.cmdEnv = CmdEnv(envRun.env)]
    /\ UNCHANGED <<vars, execVars, destroy, output, planIn, planRes, bundle, jsonRun, relay>>

\* cmd.Start: the child runs with its environment.
StartWithEnv ==
    /\ envRun.pc = "cmd"
    /\ envRun' = [envRun EXCEPT !.pc = "started",
                                !.child = ChildEnv(envRun.cmdEnv, envRun.ambient)]
    /\ UNCHANGED <<vars, execVars, destroy, output, planIn, planRes, bundle, jsonRun, relay>>

NextEnv ==
    \/ BuildEnv
    \/ ExecSetsEnv
    \/ StartWithEnv

----------------------------------------------------------------------------
\* Terraform.Plan of the tfexec client.

\* The largest exit status of a process.
MaxExitCode == 255

\* -1 is the exit code of a process that a signal ended.
ExitCodes == -1..MaxExitCode

\* What terraformExec returns when it is asked for the exit code: the code of
\* a process that ran, or an error.
TerraformExecResults ==
    {[exitCode |-> c, err |-> Nil] : c \in ExitCodes}
        \cup {[exitCode |-> 0, err |-> e] : e \in {"terraform start command error", CtxCanceled}}

\* Errors of Terraform.Plan: none, the one of terraformExec, or
\* fmt.Errorf("terraform plan unexpected exit code: %d", exitCode).
NoError == <<>>
ExecError(e) == <<e>>
UnexpectedExitCode(c) == <<"terraform plan unexpected exit code: %d", c>>

\* A Plan that takes exit code 2 for a failure.
PlanTwoIsError(r) ==
    IF r.err # Nil THEN [changed |-> FALSE, err |-> ExecError(r.err)]
    ELSE IF r.exitCode = 0 THEN [changed |-> FALSE, err |-> NoError]
    ELSE [changed |-> FALSE, err |-> UnexpectedExitCode(r.exitCode)]

\* Terraform.Plan, from the return of terraformExec on.
Plan(r) ==
    IF r.err # Nil THEN [changed |-> FALSE, err |-> ExecError(r.err)]
    ELSE IF r.exitCode = 0 THEN [changed |-> FALSE, err |-> NoError]
    ELSE IF r.exitCode = 2 THEN [changed |-> TRUE, err |-> NoError]
    ELSE [changed |-> FALSE, err |-> UnexpectedExitCode(r.exitCode)]

\* Terraform.Plan returns.
TerraformPlan ==
    /\ ~planRes.done
    /\ planRes' = [done |-> TRUE, changed |-> Plan(planIn).changed, err |-> Plan(planIn).err]
    /\ UNCHANGED <<vars, execVars, destroy, output, planIn, bundle, pure>>

\* No call of Terraform.Plan is followed.
InitAside ==
    /\ output = NoOutput
    /\ bundle = NoBundle
    /\ destroy = NoDestroy
    /\ planIn = [exitCode |-> 0, err |-> Nil]
    /\ planRes = [done |-> FALSE, changed |-> FALSE, err |-> NoError]

NextPlan ==
    \/ TerraformPlan

----------------------------------------------------------------------------

InitWorkflows ==
    /\ netPc = "Start"
    /\ netResult = [VpcID |-> "", err |-> Nil]
    /\ vpcResult = [done |-> FALSE, VpcID |-> "", err |-> Nil]
    /\ subnetsResult = [done |-> FALSE, err |-> Nil]
    /\ pc = "Idle"
    /\ bundlePath = ""
    /\ planOutput = ZeroPlanOutput
    /\ decision = ""
    /\ ret = [r \in Runs |-> NotReturned]
    /\ signalCh = <<>>
    /\ sent = 0
    /\ calls = <<>>
    /\ consumed = <<>>

\* No function is followed on its own.
InitPure ==
    /\ envRun = NoEnvRun
    /\ jsonRun = NoJsonRun
    /\ relay = NoRelay

Init ==
    /\ InitWorkflows
    /\ InitExec
    /\ InitAside
    /\ InitPure

\* A subprocess is about to be given its environment, for any mapping of the
\* caller and any environment of the worker.
InitEnv ==
    /\ InitWorkflows
    /\ InitExec
    /\ InitAside
    /\ envRun \in EnvRuns
    /\ jsonRun = NoJsonRun
    /\ relay = NoRelay

\* parseJson is about to be called with any wire value.
InitJson ==
    /\ InitWorkflows
    /\ InitExec
    /\ InitAside
    /\ envRun = NoEnvRun
    /\ jsonRun \in {[NoJsonRun EXCEPT !.message = m] : m \in Wires}
    /\ relay = NoRelay

\* A child has been started that writes any lines on its two streams.
InitRelay ==
    /\ InitWorkflows
    /\ InitExec
    /\ InitAside
    /\ envRun = NoEnvRun
    /\ jsonRun = NoJsonRun
    /\ relay \in Relays

\* Terraform.Plan is called with any result of terraformExec.
InitPlan ==
    /\ InitWorkflows
    /\ InitExec
    /\ output = NoOutput
    /\ bundle = NoBundle
    /\ destroy = NoDestroy
    /\ planIn \in TerraformExecResults
    /\ planRes = [done |-> FALSE, changed |-> FALSE, err |-> NoError]
    /\ InitPure

Next ==
    \/ StartCreateDemoNetwork
    \/ BundleDone
    \/ PlanDone
    \/ ReceiveDecision
    \/ ApplyDone
    \/ SendSignal
    \/ CreateVPCReturns
    \/ CreateSubnetsReturns

Spec == Init /\ [][Next]_vars

\* Every activity that was started completes, and a Receive returns once
\* the channel holds a token.  Nothing is assumed of the clients that signal.
ControllerFairness ==
    /\ WF_vars(BundleDone)
    /\ WF_vars(PlanDone)
    /\ WF_vars(ApplyDone)
    /\ WF_vars(ReceiveDecision)

\* The workflows with activities that complete and a channel that delivers.
SpecLive == Spec /\ ControllerFairness

\* One Workspace call of an activity, with the workflows idle.
SpecExec == Init /\ [][NextExec]_<<vars, others>>

\* The first run of the controller up to its first wait for a decision, the
\* plan activity executing terraform.
SpecRun == Init /\ [][NextRun]_<<vars, others>>

\* One call of terraformExec, with the output of its child.
SpecOutput == Init /\ [][NextOutput]_<<vars, others>>

\* One call of BundleForApply or BundleForDestroy.
SpecBundle == Init /\ [][NextBundle]_<<vars, others>>

\* One call of Terraform.Plan.
SpecPlan == InitPlan /\ [][NextPlan]_<<vars, others>>

\* The environment of one subprocess.
SpecEnv == InitEnv /\ [][NextEnv]_<<vars, others>>

\* One call of parseJson.
SpecJson == InitJson /\ [][NextJson]_<<vars, others>>

\* The copying of the output of one child, up to the return of cmd.Wait.
SpecRelay == InitRelay /\ [][NextRelay]_<<vars, others>>

\* One execution of DestroyDemoNetworkWorkflow.
SpecDestroy == Init /\ [][NextDestroy]_<<vars, others>>

\* One call of terraformExec and its watcher goroutine, which is scheduled.
SpecWatch == Init /\ [][NextWatch]_<<vars, others>> /\ WatcherFairness

----------------------------------------------------------------------------
\* Properties of the controller, over the histories `calls` and `consumed`.

Recognized == {"plan", "approve", "reject"}

\* The tokens received for the plan that is call i.
ConsumedFor(i) == {k \in DOMAIN consumed : consumed[k].forCall = i}

\* Call i is a plan of run r that completed and reported changes.
PlanWithChanges(i, r) ==
    /\ i \in DOMAIN calls
    /\ calls[i].act = "plan"
    /\ calls[i].run = r
    /\ calls[i].status = "ok"
    /\ calls[i].HasChanges

\* C1: the apply activity is invoked only right after a plan of the same run
\* that reported changes and for which the token received is "approve"; no
\* other token received for a plan is followed by apply.
C1_ApplyOnlyOnApprove ==
    \A i \in DOMAIN calls :
        calls[i].act = "apply" =>
            /\ PlanWithChanges(i - 1, calls[i].run)
            /\ ConsumedFor(i - 1) # {}
            /\ \A k \in ConsumedFor(i - 1) :
                consumed[k].tok = "approve" /\ consumed[k].run = calls[i].run

\* The second run applies although a token other than "approve" was received earlier.
C1_Witness ==
    /\ CallsOf(2, "apply") # {}
    /\ \E k \in DOMAIN consumed : consumed[k].tok \notin {"approve"}

\* C2: once a run has received "reject" it has returned an empty ApplyOutput
\* and no error, and it invokes no apply activity.
C2_RejectNeverApplies ==
    \A k \in DOMAIN consumed :
        consumed[k].tok = "reject" =>
            /\ ret[consumed[k].run] = Returned(EmptyOutput, Nil)
            /\ CallsOf(consumed[k].run, "apply") = {}
            /\ \A i \in DOMAIN calls :
                calls[i].run = consumed[k].run => i <= consumed[k].forCall

\* A run received "reject" after planning twice.
C2_Witness ==
    \E k \in DOMAIN consumed :
        /\ consumed[k].tok = "reject"
        /\ Cardinality(CallsOf(consumed[k].run, "plan")) >= 2

\* C3: when a run receives "plan", the next call is a plan activity of the same
\* run, invoked before the run returns or receives another token; the earlier
\* plan output is dropped, and an apply that follows gets the plan file of the
\* plan just before it.
C3_PlanPlansAgain ==
    \A k \in DOMAIN consumed :
        consumed[k].tok = "plan" =>
            LET i == consumed[k].forCall
                r == consumed[k].run
            IN /\ i + 1 \in CallsOf(r, "plan")
               /\ Cardinality(CallsOf(r, "plan")) >= 2
               /\ \A m \in DOMAIN consumed : m > k => consumed[m].forCall > i
               /\ (Len(calls) = i + 1 /\ calls[i + 1].status = "running")
                    => pc = "Planning" /\ planOutput = ZeroPlanOutput /\ ~ret[r].done
               /\ \A j \in CallsOf(r, "apply") :
                    j > i + 1 /\ calls[j].inPlanFile = calls[j - 1].outPath

\* After "plan" the second plan returned another plan file and was approved.
C3_Witness ==
    \E k \in DOMAIN consumed :
        /\ consumed[k].tok = "plan"
        /\ \E j \in CallsOf(consumed[k].run, "apply") :
            calls[j].inPlanFile # calls[consumed[k].forCall].outPath
\* The last element of a non-empty sequence.
Last(q) == q[Len(q)]

\* The calls of run r, whatever the activity.
CallsOfRun(r) == {i \in DOMAIN calls : calls[i].run = r}

\* C4: a token that is none of "plan", "approve", "reject" is a no-op: as long
\* as it is the last token received, no activity has been invoked since the
\* plan it was received for, the run still waits, and the plan output is kept.
C4_UnrecognizedIsNoOp ==
    (consumed # <<>> /\ Last(consumed).tok \notin Recognized) =>
        LET i == Last(consumed).forCall
        IN /\ Len(calls) = i
           /\ pc = "AwaitingDecision"
           /\ planOutput = [HasChanges |-> TRUE, PlanFile |-> calls[i].outPath]

\* C5: a plan that reported no changes ended its run at once, with an empty
\* output and no error, no token received for it and no call after it; a plan
\* that reported changes leaves the run waiting with that plan's output.
C5_NoChangesEndsRun ==
    \A i \in DOMAIN calls :
        (calls[i].act = "plan" /\ calls[i].status = "ok") =>
            LET r == calls[i].run
            IN IF ~calls[i].HasChanges
               THEN /\ ret[r] = Returned(EmptyOutput, Nil)
                    /\ ConsumedFor(i) = {}
                    /\ \A j \in CallsOfRun(r) : j <= i
               ELSE (i = Len(calls) /\ ConsumedFor(i) = {}) =>
                    /\ pc = "AwaitingDecision"
                    /\ ~ret[r].done
                    /\ planOutput = [HasChanges |-> TRUE, PlanFile |-> calls[i].outPath]

\* A second plan of a run reported no changes, while a token is still buffered.
C5_Witness ==
    \E i \in DOMAIN calls :
        /\ calls[i].act = "plan" /\ calls[i].status = "ok" /\ ~calls[i].HasChanges
        /\ Cardinality(CallsOf(calls[i].run, "plan")) >= 2
        /\ signalCh # <<>>

\* C6: a run that received "approve" invokes apply exactly once, with the plan
\* file returned by the latest plan of the run, and returns what apply returned.
C6_ApproveAppliesLatestPlan ==
    \A k \in DOMAIN consumed :
        consumed[k].tok = "approve" =>
            LET i == consumed[k].forCall
                r == consumed[k].run
            IN /\ CallsOf(r, "apply") = {i + 1}
               /\ PlanWithChanges(i, r)
               /\ \A j \in CallsOf(r, "plan") : j <= i
               /\ calls[i + 1].inPlanFile = calls[i].outPath
               /\ IF calls[i + 1].status = "running"
                  THEN ~ret[r].done
                  ELSE ret[r] = Returned(calls[i + 1].out, calls[i + 1].err)

\* The approved plan is the second of its run, with another plan file than the
\* first, and apply returned a non-empty output.
C6_Witness ==
    \E k \in DOMAIN consumed :
        /\ consumed[k].tok = "approve"
        /\ \E j \in CallsOf(consumed[k].run, "plan") :
            j < consumed[k].forCall /\ calls[j].outPath # calls[consumed[k].forCall].outPath
        /\ ret[consumed[k].run].done
        /\ ret[consumed[k].run].out # EmptyOutput

\* Every token is received at most once, and only for the latest call, a
\* completed plan of the receiving run that reported changes.
ConsumedOnceAfterPlan ==
    /\ \A k, m \in DOMAIN consumed : consumed[k].id = consumed[m].id => k = m
    /\ \A k \in DOMAIN consumed : PlanWithChanges(consumed[k].forCall, consumed[k].run)

\* C7 as stated: tokens are received at most once and after the plan they are
\* applied to, and no token is applied to a plan that had not been computed
\* when the token was sent.
C7_NeverForLaterPlan ==
    /\ ConsumedOnceAfterPlan
    /\ \A k \in DOMAIN consumed : consumed[k].plansAtSend = consumed[k].plansAtReceive

\* C7 amended: tokens are received at most once and after the plan they are
\* applied to; a token sent early stays buffered, in arrival order, until the
\* run waits for a decision, and none is dropped.
C7_QueuedUntilAwaiting ==
    /\ ConsumedOnceAfterPlan
    /\ \A k \in DOMAIN consumed : consumed[k].plansAtSend <= consumed[k].plansAtReceive
    /\ Len(consumed) + Len(signalCh) = sent
    /\ \A k \in DOMAIN consumed : consumed[k].id = k
    /\ \A k \in DOMAIN signalCh : signalCh[k].id = Len(consumed) + k

\* A token sent before any plan had completed was received for the second plan.
C7_Witness ==
    \E k \in DOMAIN consumed :
        consumed[k].plansAtSend = 0 /\ consumed[k].plansAtReceive >= 2

\* C8: a run invokes the bundle activity exactly once, as its first call, and
\* every plan and apply of the run is given the path that bundle returned.
C8_BundleOncePerRun ==
    \A r \in Runs :
        CallsOfRun(r) # {} =>
            \E b \in CallsOfRun(r) :
                /\ CallsOf(r, "bundle") = {b}
                /\ \A j \in CallsOfRun(r) : b <= j
                /\ \A j \in CallsOfRun(r) \ {b} :
                    calls[b].status = "ok" /\ calls[j].inBundle = calls[b].outPath

\* The two runs were given different bundles; the second planned twice and applied.
C8_Witness ==
    /\ Cardinality(CallsOf(2, "plan")) >= 2
    /\ CallsOf(2, "apply") # {}
    /\ \E i \in CallsOf(1, "bundle"), j \in CallsOf(2, "bundle") :
        calls[i].outPath # calls[j].outPath

\* C9: an activity that ended with an error is the last call of its run, no
\* token is received after it, and the run returned that error with an empty
\* output.
C9_ErrorAborts ==
    \A i \in DOMAIN calls :
        calls[i].status = "err" =>
            LET r == calls[i].run
            IN /\ ret[r] = Returned(EmptyOutput, calls[i].err)
               /\ \A j \in CallsOfRun(r) : j <= i
               /\ \A k \in DOMAIN consumed :
                    consumed[k].run = r => consumed[k].forCall < i

\* The apply of the second run failed while a token was still buffered.
C9_Witness ==
    /\ \E i \in CallsOf(2, "apply") : calls[i].status = "err"
    /\ signalCh # <<>>

\* C10: when CreateVPCWorkflow or CreateSubnetsWorkflow failed,
\* CreateDemoNetworkWorkflow returned an error.
C10_FailurePropagates ==
    (netPc = "Returned" /\ (Failed(vpcResult.err) \/ Failed(subnetsResult.err)))
        => netResult.err # Nil

----------------------------------------------------------------------------
\* Claims about terraformExec and the Workspace calls, under SpecExec.

\* The context was cancelled while the child of the current invocation ran.
CancelledWhileRunning ==
    /\ cancelAt.set
    /\ cancelAt.inv = cur
    /\ cancelAt.proc = "running"

Sigs(sig) == {k \in DOMAIN sigs : sigs[k].sig = sig}

\* C11: when the child had already exited at the moment the watcher observed
\* the context as done, the watcher ends without sending SIGINT or SIGKILL
\* and without calling Process.Kill.
C11_ExitedMeansNoAction ==
    \A i \in DOMAIN cmds :
        cmds[i].woke \in {"zombie", "reaped"} => (cmds[i].w = "done" /\ sigs = <<>>)

\* C12: on cancellation while the child runs, every SIGKILL follows a SIGINT,
\* and after a SIGINT delivered without error a SIGKILL is sent only when the
\* 30 seconds of polling have passed and the child has still not exited.
C12_KillOnlyAfterDeadlineStillRunning ==
    CancelledWhileRunning =>
        \A k \in Sigs("SIGKILL") :
            /\ \E j \in Sigs("SIGINT") : j < k
            /\ (\E j \in Sigs("SIGINT") : ~Failed(sigs[j].res)) =>
                    /\ DeadlinePassed(sigs[k].polls)
                    /\ sigs[k].proc = "running"

\* C13: when the context was cancelled while the child ran, the child is gone
\* once 150 polls of 200 ms have been made.
C13_GoneWithin30s ==
    CancelledWhileRunning =>
        (DeadlinePassed(cmds[cur].polls) => cmds[cur].proc # "running")

\* C13, as the code has it: when the context was cancelled while the child
\* ran, the watcher polls at most 150 times before the deadline has passed,
\* a child that is still running then is killed by the SIGKILL that follows,
\* and the child runs no more once the watcher has ended.
C13_GoneWhenWatcherEnds ==
    CancelledWhileRunning =>
        /\ cmds[cur].polls * PollMs <= DeadlineMs
        /\ cmds[cur].w = "poll" => ~DeadlinePassed(cmds[cur].polls)
        /\ cmds[cur].w = "done" => cmds[cur].proc # "running"

\* A child that ignored SIGINT was killed after the 150th poll.
C13_Witness ==
    /\ CancelledWhileRunning
    /\ cmds[cur].w = "done"
    /\ \E k \in Sigs("SIGKILL") : DeadlinePassed(sigs[k].polls) /\ sigs[k].proc = "running"
    /\ \E j \in Sigs("SIGINT") : ~Failed(sigs[j].res)

\* C14: when the context of the activity was cancelled while a child ran, the
\* watcher of that child can wake, it does not go on to poll or end without
\* having sent SIGINT unless terraformExec has returned, a SIGKILL follows a
\* SIGINT, and no later subcommand of the call has been started.
C14_CancellationReachesChild ==
    (cancelAt.set /\ cancelAt.proc = "running") =>
        /\ \A i \in DOMAIN cmds : i > cancelAt.inv => cmds[i].proc = "none"
        /\ cancelAt.inv = cur =>
            /\ cmds[cur].w # "none"
            /\ cmds[cur].w = "waiting" => WatcherCtxDone(cmds[cur])
            /\ cmds[cur].w \in {"killNow", "poll", "killLate"} =>
                    (sigs # <<>> /\ sigs[1].sig = "SIGINT")
            /\ cmds[cur].w = "done" =>
                    (cmds[cur].exited \/ (sigs # <<>> /\ sigs[1].sig = "SIGINT"))
            /\ cmds[cur].w = "done" => cmds[cur].proc # "running"

\* The worker stopped during an import: its child was interrupted and then
\* killed, and the call returned without running apply.
C14_Witness ==
    /\ workerStop
    /\ CancelledWhileRunning
    /\ cmds[cur].cmd = "import"
    /\ Sigs("SIGINT") # {} /\ Sigs("SIGKILL") # {}
    /\ call.pc = "returned"
    /\ call.err = CtxCanceled

\* C15: at most one child of a call is active, and a subcommand begins only
\* after the child of every earlier one was reaped or never started.
C15_OneSubprocessAtATime ==
    /\ Cardinality({i \in DOMAIN cmds : cmds[i].proc \in {"running", "zombie"}}) <= 1
    /\ \A i \in DOMAIN cmds : i < cur => cmds[i].proc \in {"none", "reaped"}

\* The fourth subcommand of an Apply runs after a cancellation.
C15_Witness ==
    /\ Len(cmds) = 3 + MaxImports
    /\ cmds[cur].proc = "running"
    /\ ctxDone
    /\ \A i \in DOMAIN cmds : i < cur => cmds[i].proc = "reaped"

\* C16: the directory of a call exists only while the call executes: it is
\* gone when the call has returned, with or without an error, and no child of
\* the call runs when it has been removed.
C16_WorkDirRemoved ==
    /\ workDir = "exists" => call.pc \notin {"idle", "returned"}
    /\ call.pc = "returned" => workDir \in {"none", "removed"}
    /\ (call.pc = "returned" /\ cmds # <<>>) => workDir = "removed"
    /\ workDir = "removed" => \A i \in DOMAIN cmds : cmds[i].proc \notin {"running", "zombie"}

\* An Apply returned its output, and the directory was removed.
C16_Witness ==
    /\ call.kind = "Apply"
    /\ call.pc = "returned"
    /\ call.err = Nil
    /\ call.out = "output"
    /\ workDir = "removed"

----------------------------------------------------------------------------
\* Claims about a run and the workspace of its plan activity, under SpecRun.

\* C17: while the run waits for a decision token, the plan activity it waited
\* for has returned, the directory of its workspace is gone and no child
\* process of it is active.
C17_NothingHeldWhileWaiting ==
    pc = "AwaitingDecision" =>
        /\ call.seq = Pending /\ call.pc = "returned"
        /\ workDir # "exists"
        /\ \A i \in DOMAIN cmds : cmds[i].proc \notin {"running", "zombie"}

\* The run waits after a plan that ran init and plan in a directory that has
\* been removed.
C17_Witness ==
    /\ pc = "AwaitingDecision"
    /\ workDir = "removed"
    /\ Len(cmds) = 2
    /\ cmds[2].cmd = "plan" /\ cmds[2].proc = "reaped"
    /\ planOutput.HasChanges

----------------------------------------------------------------------------
\* Claims about Terraform.Plan, under SpecPlan.

\* C18: for a process that exited with a code, Terraform.Plan returns no
\* change and no error for code 0, a change and no error for code 2, and for
\* every other code an error that carries the code.
C18_PlanExitCode ==
    (planRes.done /\ planIn.err = Nil) =>
        /\ planIn.exitCode = 0 => (~planRes.changed /\ planRes.err = NoError)
        /\ planIn.exitCode = 2 => (planRes.changed /\ planRes.err = NoError)
        /\ planIn.exitCode \notin {0, 2} =>
                /\ ~planRes.changed
                /\ Len(planRes.err) = 2
                /\ planRes.err[2] = planIn.exitCode

\* Plan returned a change for exit code 2.
C18_Witness ==
    /\ planRes.done
    /\ planIn.err = Nil
    /\ planIn.exitCode = 2
    /\ planRes.changed

----------------------------------------------------------------------------
\* Claims about the output of the child, under SpecOutput.

FailingStatus == {"failed", "killed"}

\* C19: terraformExec returns an error only when the child failed to start or
\* exited with a failing status.
C19_ErrorOnlyFromStartOrStatus ==
    (call.pc = "returned" /\ Failed(call.err)) =>
        \/ call.err = "terraform start command error"
        \/ cmds[cur].status \in FailingStatus

\* C19, as the code has it: the interceptor takes every write in full, so
\* the copying of the output ends only when the sink fails, and until then
\* everything the child wrote has been relayed; terraformExec returns an
\* error only when the context was cancelled before the start, the child
\* failed to start or exited with a failing status, or the sink failed; a
\* child that exits with status 0 gives no error, whatever error lines it
\* wrote.
C19_MarkersNeverFail ==
    /\ output.broken => output.sinkFailed
    /\ ~output.sinkFailed => output.sink = output.written
    /\ (call.pc = "returned" /\ Failed(call.err)) =>
            \/ call.err = CtxCanceled /\ cmds[cur].proc = "none"
            \/ call.err = "terraform start command error"
            \/ cmds[cur].status \in FailingStatus
            \/ output.sinkFailed
    /\ (call.pc = "returned" /\ cmds[cur].status = "ok" /\ ~output.sinkFailed) =>
            call.err = Nil

\* The child wrote two error lines, both were kept and relayed, it exited
\* with status 0, and terraformExec returned no error.
C19_Witness ==
    /\ call.pc = "returned"
    /\ call.err = Nil
    /\ cmds[cur].status = "ok"
    /\ Len(output.errors) = 2
    /\ output.sink = output.written

\* Everything the child wrote, as one text.
RECURSIVE Flatten(_)
Flatten(chunks) == IF chunks = <<>> THEN <<>> ELSE Head(chunks) \o Flatten(Tail(chunks))

\* The lines of a text, without their line ends.
RECURSIVE Lines(_, _)
Lines(text, line) ==
    IF text = <<>> THEN (IF line = <<>> THEN <<>> ELSE <<line>>)
    ELSE IF Head(text) = "nl" THEN <<line>> \o Lines(Tail(text), <<>>)
    ELSE Lines(Tail(text), Append(line, Head(text)))

\* The lines of the output whose trimmed text begins with "Error:".
MarkerLines == SelectSeq(Lines(Flatten(output.written), <<>>), IsErrorLine)

\* The text l is part of the text c.
Contains(c, l) == \E i \in 0..(Len(c) - Len(l)) : SubSeq(c, i + 1, i + Len(l)) = l

\* The child exited with a failure, all its output was copied, and
\* terraformExec returned the error it built from the kept lines.
FailedWithOutput ==
    /\ call.pc = "returned"
    /\ call.err = "terraform error"
    /\ cmds[cur].status = "failed"
    /\ ~output.broken

\* C27: when the child exits with a failure, every line of its output
\* whose trimmed text begins with "Error:" is in the list the error is
\* built from, however the output was cut into writes.
C27_EveryMarkerLineKept ==
    FailedWithOutput =>
        \A k \in DOMAIN MarkerLines :
            \E i \in DOMAIN output.errors : Contains(output.errors[i], MarkerLines[k])

----------------------------------------------------------------------------
\* Claims about the bundle builder, under SpecBundle.

\* C20: a call that returned an error returned an empty path and left no
\* archive file, and an archive file is there after the call only when the
\* call returned a path and no error.
C20_BundleAtomic ==
    bundle.pc = "returned" =>
        /\ Failed(bundle.err) => (bundle.path = "" /\ bundle.file # "exists")
        /\ bundle.file = "exists" => (~Failed(bundle.err) /\ bundle.path # "")
        /\ ~Failed(bundle.err) => (bundle.path # "" /\ bundle.file = "exists")

\* The call failed after entries had been written, and the file was removed.
C20_Witness ==
    /\ bundle.pc = "returned"
    /\ Failed(bundle.err)
    /\ Len(bundle.entries) >= 2
    /\ bundle.file = "removed"

\* The entries of a bundle under a path.
EntriesNamed(name) == {i \in DOMAIN bundle.entries : bundle.entries[i].name = name}

\* BundleForApply returned a bundle.
ApplyBundleBuilt ==
    /\ bundle.pc = "returned"
    /\ bundle.kind = "Apply"
    /\ ~Failed(bundle.err)

\* C21: the bundle BundleForApply returns holds each file of the source tree
\* exactly once, under its path relative to the root and with its bytes, one
\* entry _backend.tf exactly when a backend is configured, one entry
\* terraform.tfvars.json, and no two entries under the same path.
C21_BundleContents ==
    ApplyBundleBuilt =>
        /\ \A i \in DOMAIN bundle.tree :
            /\ Cardinality(EntriesNamed(bundle.tree[i].rel)) = 1
            /\ \A e \in EntriesNamed(bundle.tree[i].rel) :
                bundle.entries[e].data = bundle.tree[i].data
        /\ Cardinality(EntriesNamed(<<"_backend.tf">>)) = (IF bundle.backend THEN 1 ELSE 0)
        /\ Cardinality(EntriesNamed(<<"terraform.tfvars.json">>)) = 1
        /\ \A i, j \in DOMAIN bundle.entries :
            bundle.entries[i].name = bundle.entries[j].name => i = j

----------------------------------------------------------------------------
\* Claims about the steps of Workspace.Apply, under SpecExec.

\* How many times a call has called a client method.
Count(method) == Cardinality({i \in DOMAIN call.tried : call.tried[i] = method})

\* An import of the call failed: its subprocess failed.
AnImportFailed ==
    \E i \in DOMAIN cmds : cmds[i].cmd = "import" /\ cmds[i].status = "failed"

CancelledDuringImport == cancelAt.set /\ call.kind = "Apply" /\ cancelAt.at = "import"

\* The context was cancelled between two steps of the import loop.
CancelledBetweenImports == cancelAt.set /\ call.kind = "Apply" /\ cancelAt.at = "loop"

ReturnedBeforeImports == call.pc = "returned" /\ Len(call.tried) <= 1

\* terraformExec has returned an error for terraform init.
InitExecFailed == call.pc = "init" /\ execPc = "ret" /\ Failed(execErr)

\* C25: a Workspace call that fails at the extraction or in init returns
\* the error alone, with its directory removed, and runs nothing else.  A
\* call that returned without going past init returned an error and no
\* output, left no directory, and started no subprocess but that of init;
\* and when terraformExec returns an error for init, the next step of the
\* call is that return.
C25_FailedInitEndsCall ==
    /\ [](ReturnedBeforeImports =>
            /\ Failed(call.err)
            /\ call.out = "none"
            /\ workDir # "exists"
            /\ Len(cmds) <= 1
            /\ \A i \in DOMAIN cmds : cmds[i].cmd = "init"
            /\ \A i \in DOMAIN call.tried : call.tried[i] = "Init")
    /\ [][(InitExecFailed /\ call' # call) =>
            /\ call'.pc = "returned"
            /\ call'.err = execErr
            /\ call'.tried = call.tried
            /\ cmds' = cmds
            /\ workDir' = "removed"]_<<vars, others>>

\* terraform init exited with a failure in a call that had an import to
\* try, and the call has returned.
C25_Witness ==
    /\ call.pc = "returned"
    /\ call.kind = "Apply"
    /\ call.n >= 1
    /\ Len(cmds) = 1
    /\ cmds[1].status = "failed"
    /\ call.err = "terraform error"
    /\ workDir = "removed"

\* terraformExec is past cmd.Wait, or was never at it.
PastWait == execPc \in {"deferCancel", "deferExited", "ret"}

\* C29: terraformExec returns from a child it started only when cmd.Wait has
\* returned for that child, so no child of an invocation that has returned
\* is running or unreaped, whatever its watcher did; what it returns then is
\* what the wait gave (an error for a failing status, none for status 0),
\* and the error of the context is returned only for a child that was never
\* started.
C29_ReturnsAfterWait ==
    /\ \A i \in DOMAIN cmds :
        (i < cur \/ PastWait \/ call.pc = "returned") => cmds[i].proc \in {"none", "reaped"}
    /\ (PastWait /\ cmds[cur].proc = "reaped") =>
            /\ execErr = WaitError(cmds[cur].status, output.broken)
            /\ execErr # CtxCanceled
    /\ (PastWait /\ execErr = CtxCanceled) => cmds[cur].proc = "none"

\* The context was cancelled while the child ran, the watcher killed the
\* child after the deadline, and terraformExec returns the error of the wait.
C29_Witness ==
    /\ CancelledWhileRunning
    /\ execPc = "ret"
    /\ \E k \in Sigs("SIGKILL") : DeadlinePassed(sigs[k].polls)
    /\ cmds[cur].proc = "reaped"
    /\ cmds[cur].status = "killed"
    /\ execErr = "terraform error"

\* The place of a subcommand in Workspace.Apply.
Rank == [init |-> 1, import |-> 2, apply |-> 3, output |-> 4]

\* The call makes one more call of a client method in this step.
Invokes(method) ==
    /\ Len(call'.tried) = Len(call.tried) + 1
    /\ call'.tried[Len(call'.tried)] = method

\* C30: Workspace.Apply starts its subprocesses in the order init, imports,
\* apply, output, each of init, apply and output at most once; it invokes
\* output only when terraformExec has returned for an apply that exited
\* with status 0; a call that returns an error returns an empty ApplyOutput;
\* and a call that returns no error has run output after apply and returns
\* a mapping with exactly the reported names, each with the value parseJson
\* gives for what was reported.
C30_ApplyOrder ==
    /\ [](call.kind = "Apply" =>
            /\ \A i, j \in DOMAIN cmds :
                i < j => /\ Rank[cmds[i].cmd] <= Rank[cmds[j].cmd]
                         /\ cmds[j].cmd # "import" => Rank[cmds[i].cmd] < Rank[cmds[j].cmd]
            /\ cmds # <<>> => cmds[1].cmd = "init"
            /\ (call.pc = "returned" /\ Failed(call.err)) =>
                    (call.out = "none" /\ call.values = <<>>)
            /\ (call.pc = "returned" /\ ~Failed(call.err)) =>
                    /\ call.tried = <<"Init">> \o [i \in 1..call.n |-> "Import"]
                                        \o <<"Apply", "Output">>
                    /\ cmds[cur].cmd = "output"
                    /\ cmds[cur - 1].cmd = "apply"
                    /\ call.out = "output"
                    /\ DOMAIN call.values = DOMAIN call.reported
                    /\ \A k \in DOMAIN call.reported :
                        /\ call.values[k] = ParseJson(call.reported[k])
                        /\ call.reported[k] = <<Str(<<"vpc-1">>)>> =>
                                (call.values[k].kind = "string" /\ call.values[k].s = <<"vpc-1">>)
                        /\ call.reported[k] = <<Number(42)>> =>
                                (call.values[k].kind = "int" /\ call.values[k].n = 42))
    /\ [][(call.kind = "Apply" /\ Invokes("Output")) =>
            /\ call.pc = "apply"
            /\ execPc = "ret"
            /\ ~Failed(execErr)
            /\ cmds[cur].cmd = "apply"
            /\ cmds[cur].status = "ok"
            /\ cmds[cur].proc = "reaped"]_<<vars, others>>

\* Workspace.Apply ran init, an import, apply and output, and returned two
\* outputs, a string and a list.
C30_Witness ==
    /\ call.kind = "Apply"
    /\ call.pc = "returned"
    /\ ~Failed(call.err)
    /\ call.n >= 1
    /\ Len(cmds) = call.n + 3
    /\ DOMAIN call.values = {"vpc_id", "subnet_ids"}
    /\ call.values["vpc_id"].kind = "string"
    /\ call.values["subnet_ids"].kind = "[]string"

----------------------------------------------------------------------------
\* Claims about the environment of the subprocess, under SpecEnv.

\* C24: the child that cmd.Start runs has exactly the entries of the env
\* mapping given to terraformExec, and so nothing of the worker's
\* environment, whatever the mapping, the empty one included.
C24_ExactEnvironment ==
    envRun.pc = "started" =>
        envRun.child = {EnvString(k, envRun.env[k]) : k \in DOMAIN envRun.env}

----------------------------------------------------------------------------
\* Claims about parseJson, under SpecJson.

\* The arrays all of whose elements are strings.
StringArrays ==
    {Array(es) : es \in UNION {[1..n -> {e \in Elements : e.k = "string"}] : n \in 0..MaxElems}}

\* The elements of an array, from the tokens it was made of.
ElementsOf(m) == [i \in 1..((Len(m) - 1) \div 2) |-> m[2 * i]]

\* C26: parseJson returns what the first of three decodings that succeeds
\* gives, tried in the order string, list of strings, integer, and the
\* message itself when none succeeds.  A string gives its text, an array
\* of strings the list of their texts, an integer that integer, and an
\* object, a number with a fraction, true, an array with a number in it or
\* a message that is no JSON give the message unchanged; null, which every
\* decoding accepts, gives what the first one leaves: the empty string.
C26_ParseJsonOrder ==
    jsonRun.done =>
        LET m == jsonRun.message
            out == jsonRun.out
        IN /\ out.kind = "string" <=> UnmarshalString(m).ok
           /\ out.kind = "[]string" <=> (~UnmarshalString(m).ok /\ UnmarshalStrings(m).ok)
           /\ out.kind = "int" <=>
                (~UnmarshalString(m).ok /\ ~UnmarshalStrings(m).ok /\ UnmarshalInt(m).ok)
           /\ out.kind = "raw" <=>
                (~UnmarshalString(m).ok /\ ~UnmarshalStrings(m).ok /\ ~UnmarshalInt(m).ok)
           /\ out.kind = "raw" => out.raw = m
           /\ (Len(m) = 1 /\ m[1].k = "string") =>
                (out.kind = "string" /\ out.s = Unquote(m[1].s))
           /\ m \in StringArrays =>
                /\ out.kind = "[]string"
                /\ out.ss = [i \in DOMAIN ElementsOf(m) |-> Unquote(ElementsOf(m)[i].s)]
           /\ (Len(m) = 1 /\ m[1].k = "int") => (out.kind = "int" /\ out.n = m[1].n)
           /\ m = <<Str(<<"hello">>)>> => (out.kind = "string" /\ out.s = <<"hello">>)
           /\ m = <<Number(42)>> => (out.kind = "int" /\ out.n = 42)
           /\ m \in {<<ObjOpen, Str(<<"x">>), Colon, Number(1), ObjClose>>, <<Float>>, <<BigInt>>,
                     <<True>>, Array(<<Str(<<"a">>), Number(1)>>), <<Open, Str(<<"a">>)>>, <<>>}
                => (out.kind = "raw" /\ out.raw = m)
           /\ m = <<Null>> => (out.kind = "string" /\ out.s = <<>>)

\* parseJson returned the object {"x":1} as it was given.
C26_Witness ==
    /\ jsonRun.done
    /\ jsonRun.message = <<ObjOpen, Str(<<"x">>), Colon, Number(1), ObjClose>>
    /\ jsonRun.out.kind = "raw"
    /\ jsonRun.out.raw = jsonRun.message

----------------------------------------------------------------------------
\* Claims about the two copies of the output, under SpecRelay.

\* The error lines one stream carried.
MarkersOf(st) == SelectSeq(relay.streams[st].copied, IsErrorLine)

\* cmd.Wait returned a failure.
RelayFailed == relay.pc = "returned" /\ Failed(relay.err)

\* C28: when terraformExec builds its error, both streams have been copied
\* to their end and every error line that either carried is in the list.
C28_NoMarkerLost ==
    RelayFailed =>
        /\ \A st \in Streams : relay.streams[st].todo = <<>> /\ relay.streams[st].pc = "done"
        /\ \A st \in Streams : \A i \in DOMAIN MarkersOf(st) :
            \E j \in DOMAIN relay.kept : relay.kept[j] = MarkersOf(st)[i]
        /\ Len(relay.kept) = Len(MarkersOf("stdout")) + Len(MarkersOf("stderr"))

----------------------------------------------------------------------------
\* Claims about a context that is cancelled before terraformExec is called,
\* under SpecExec.

\* The context was cancelled before invocation i of terraformExec began.
CancelledBeforeCall(i) == cancelAt.set /\ cancelAt.inv < i

\* C31: when the context is already cancelled at the moment terraformExec is
\* called, the command is never started (no child, no watcher goroutine), no
\* signal is sent, the call never reaches cmd.Start or cmd.Wait, and what it
\* returns is the error of the context.
C31_CancelledBeforeCall ==
    /\ \A i \in DOMAIN cmds :
            CancelledBeforeCall(i) => (cmds[i].proc = "none" /\ cmds[i].woke = "")
    /\ (cmds # <<>> /\ CancelledBeforeCall(cur)) =>
            /\ cmds[cur].w = "none"
            /\ sigs = <<>>
            /\ execPc \in {"check", "ret", "out"}
            /\ execPc \in {"ret", "out"} => execErr = CtxCanceled

\* The context was cancelled between two subcommands of a call, and the
\* terraformExec of the next one has returned the error of the context
\* without a child.
C31_Witness ==
    /\ cmds # <<>>
    /\ CancelledBeforeCall(cur)
    /\ cancelAt.inv >= 1
    /\ execPc = "ret"
    /\ execErr = CtxCanceled
    /\ cmds[cur].proc = "none"
    /\ cmds[cancelAt.inv].proc = "reaped"

----------------------------------------------------------------------------
\* Claims about the end of the watcher goroutine, under SpecWatch.

\* The watcher goroutine of the invocation was started.
WatcherStarted == cmds # <<>> /\ cmds[cur].w # "none"

WatcherEnded == cmds # <<>> /\ cmds[cur].w = "done"

\* The watcher comes back from a sleep of its polling loop.
Polled == cmds'[cur].w # cmds[cur].w \/ cmds'[cur].polls # cmds[cur].polls

\* C32: the watcher goroutine always ends.  It never polls more often than
\* the 30 seconds of its deadline allow, a poll that follows the return of
\* terraformExec is its last, and it ends once terraformExec has returned
\* and once the context of the caller is cancelled, whatever the child does.
C32_WatcherTerminates ==
    /\ [](WatcherStarted => cmds[cur].polls * PollMs <= DeadlineMs)
    /\ [][(WatcherStarted /\ cmds[cur].w = "poll" /\ cmds[cur].exited /\ Polled)
                => cmds'[cur].w = "done"]_<<vars, others>>
    /\ (WatcherStarted /\ execPc \in {"ret", "out"}) ~> WatcherEnded
    /\ (WatcherStarted /\ ctxDone) ~> WatcherEnded

\* terraformExec has returned after a child that ignored SIGINT was killed
\* at the deadline, and the watcher has ended.
C32_Witness ==
    /\ WatcherEnded
    /\ execPc = "out"
    /\ call.pc = "returned"
    /\ Failed(call.err)
    /\ \E k \in Sigs("SIGKILL") : DeadlinePassed(sigs[k].polls)

----------------------------------------------------------------------------
\* Claims about the end of TerraformPlanAndApplyWorkflow, under SpecLive.

Terminating == {"approve", "reject"}

\* The tokens other than "approve" and "reject" that run r has received.
Continuations(r) ==
    {k \in DOMAIN consumed : consumed[k].run = r /\ consumed[k].tok \notin Terminating}

\* The run that executes waits, and the next token it receives ends it.
AwaitingTerminating ==
    /\ pc = "AwaitingDecision"
    /\ signalCh # <<>>
    /\ Head(signalCh).tok \in Terminating

\* The run that executes waits and no token is buffered.
AwaitingNothing == pc = "AwaitingDecision" /\ signalCh = <<>>

\* C33: a run returns only when every plan of it that reported changes was
\* followed by a received token; every plan after the first of a run follows
\* a received token other than "approve" and "reject"; with activities that
\* complete, a run that waits with "approve" or "reject" next in the channel
\* returns, and a run either returns or comes to wait on an empty channel.
C33_Terminates ==
    /\ [](\A r \in Runs :
            /\ ret[r].done =>
                    \A i \in DOMAIN calls : PlanWithChanges(i, r) => ConsumedFor(i) # {}
            /\ Cardinality(CallsOf(r, "plan")) <= 1 + Cardinality(Continuations(r)))
    /\ \A r \in Runs : (run = r /\ AwaitingTerminating) ~> ret[r].done
    /\ \A r \in Runs : (run = r /\ pc \notin {"Idle", "Done"}) ~> (ret[r].done \/ AwaitingNothing)

\* A run planned twice because of a token that does not end it, received
\* "approve" for the second plan, and returned what apply gave it.
C33_Witness ==
    \E r \in Runs :
        /\ ret[r].done
        /\ ret[r].err = Nil
        /\ Cardinality(CallsOf(r, "plan")) = 2
        /\ Cardinality(CallsOf(r, "apply")) = 1
        /\ Cardinality(Continuations(r)) = 1
        /\ \E k \in DOMAIN consumed : consumed[k].run = r /\ consumed[k].tok = "approve"

----------------------------------------------------------------------------
\* Claims about DestroyDemoNetworkWorkflow, under SpecDestroy.

AttemptsOf(act) == {i \in DOMAIN destroy.attempts : destroy.attempts[i].act = act}

\* C34: the first attempt of the VPC destroy activity begins only after an
\* attempt of the subnets destroy activity succeeded and no attempt of it is
\* executing or follows; the subnets activity works on the subnets state and
\* the VPC activity on the VPC state of the same name; and when Get of the
\* subnets destroy returned an error, the VPC destroy is never started and
\* the workflow has returned that error.
C34_DestroyOrder ==
    /\ \A i \in AttemptsOf(DestroyVPCActivity) :
            /\ \E j \in AttemptsOf(DestroySubnetsActivity) :
                    j < i /\ destroy.attempts[j].status = "ok"
            /\ \A j \in AttemptsOf(DestroySubnetsActivity) :
                    j < i /\ destroy.attempts[j].status # "running"
            /\ destroy.attempts[i].path = "aws/vpc"
            /\ destroy.attempts[i].key = <<"vpc-", destroy.input.Name, ".tfstate">>
    /\ \A j \in AttemptsOf(DestroySubnetsActivity) :
            /\ destroy.attempts[j].path = "aws/subnet"
            /\ destroy.attempts[j].key = <<"subnets-", destroy.input.Name, ".tfstate">>
    /\ \A g \in DOMAIN destroy.got :
            (destroy.got[g].act = DestroySubnetsActivity /\ Failed(destroy.got[g].err)) =>
                /\ AttemptsOf(DestroyVPCActivity) = {}
                /\ destroy.pc = "returned"
                /\ destroy.ret = [done |-> TRUE, err |-> destroy.got[g].err]

\* The subnets destroy succeeded at its second attempt, the VPC destroy was
\* started after it, and it succeeded.
C34_Witness ==
    /\ destroy.pc = "returned"
    /\ destroy.ret.err = Nil
    /\ Cardinality(AttemptsOf(DestroySubnetsActivity)) = 2
    /\ AttemptsOf(DestroyVPCActivity) # {}

====
